---- MODULE Spec2Model ----
(***************************************************************************)
(* The topic path-finder of the knowledge base (class TopicPathFinder):    *)
(* an undirected graph over the parent links of a topic list, with edge    *)
(* weights taken from a word-overlap similarity of the topics' texts, and  *)
(* the queries findShortestPath, findAllPaths, findClosestCommonAncestor,  *)
(* findTopicsWithinDistance and getGraphStats.                             *)
(*                                                                         *)
(* Texts are sequences of one-character strings.  Numbers that the code    *)
(* holds as IEEE-754 doubles are held here as exact binary fixed-point     *)
(* values <<hi, lo>> = (hi * 2^28 + lo) * 2^-56, and every arithmetic      *)
(* operation rounds its exact result to 53 significant bits, ties to even, *)
(* as the double operation does.                                           *)
(***************************************************************************)
EXTENDS Integers, Sequences, FiniteSets

(***************************************************************************)
(* Bounds of the model.                                                    *)
(***************************************************************************)
\* topics in a topic list of the general specification
MaxTopics == 3
\* topics in a topic list of the chain-and-ring specification
MaxRingTopics == 5
\* the greatest maxDepth handed to findAllPaths
MaxDepth == 2

(***************************************************************************)
(* Characters and texts.                                                   *)
(***************************************************************************)
UpperCase ==
  <<"A", "B", "C", "D", "E", "F", "G", "H", "I", "J", "K", "L", "M",
    "N", "O", "P", "Q", "R", "S", "T", "U", "V", "W", "X", "Y", "Z">>

LowerCase ==
  <<"a", "b", "c", "d", "e", "f", "g", "h", "i", "j", "k", "l", "m",
    "n", "o", "p", "q", "r", "s", "t", "u", "v", "w", "x", "y", "z">>

Digits == {"0", "1", "2", "3", "4", "5", "6", "7", "8", "9"}

\* the characters the regular expression class \s matches
Whitespace == {" ", "\t", "\n"}

Range(s) == {s[i] : i \in 1..Len(s)}

\* String.prototype.toLowerCase, one character
toLowerCase(c) ==
  IF \E i \in 1..26 : UpperCase[i] = c
    THEN LowerCase[CHOOSE i \in 1..26 : UpperCase[i] = c]
    ELSE c

\* the characters the regular expression class \w matches
IsWordChar(c) == c \in Range(UpperCase) \cup Range(LowerCase) \cup Digits \cup {"_"}

\* text.toLowerCase().replace(/[^\w\s]/g, ' ')
Normalise(text) ==
  [i \in 1..Len(text) |->
     LET c == toLowerCase(text[i])
     IN  IF IsWordChar(c) \/ c \in Whitespace THEN c ELSE " "]

\* String.prototype.split(/\s+/): the pieces between maximal runs of white
\* space, in order; a text that starts or ends with white space yields an
\* empty first or last piece
RECURSIVE SplitFrom(_, _, _, _)
SplitFrom(text, i, cur, prevSpace) ==
  IF i > Len(text) THEN <<cur>>
  ELSE IF text[i] \in Whitespace
    THEN IF prevSpace THEN SplitFrom(text, i + 1, cur, TRUE)
         ELSE <<cur>> \o SplitFrom(text, i + 1, <<>>, TRUE)
    ELSE SplitFrom(text, i + 1, Append(cur, text[i]), FALSE)

Split(text) == SplitFrom(text, 1, <<>>, FALSE)

stopWords ==
  {
    <<"t", "h", "e">>, <<"a">>, <<"a", "n">>, <<"a", "n", "d">>, <<"o", "r">>,
    <<"b", "u", "t">>, <<"i", "n">>, <<"o", "n">>, <<"a", "t">>, <<"t", "o">>,
    <<"f", "o", "r">>, <<"o", "f">>, <<"w", "i", "t", "h">>, <<"b", "y">>, <<"i", "s">>,
    <<"a", "r", "e">>, <<"w", "a", "s">>, <<"w", "e", "r", "e">>, <<"b", "e">>,
    <<"b", "e", "e", "n">>, <<"b", "e", "i", "n", "g">>, <<"h", "a", "v", "e">>,
    <<"h", "a", "s">>, <<"h", "a", "d">>, <<"d", "o">>, <<"d", "o", "e", "s">>,
    <<"d", "i", "d">>, <<"w", "i", "l", "l">>, <<"w", "o", "u", "l", "d">>,
    <<"c", "o", "u", "l", "d">>, <<"s", "h", "o", "u", "l", "d">>
  }

\* TopicPathFinder.extractWords: the set of significant words of a text
SignificantWords(text) ==
  {w \in Range(Split(Normalise(text))) : Len(w) > 2 /\ w \notin stopWords}

(***************************************************************************)
(* Double arithmetic.  A value is <<hi, lo>> with 0 <= lo < Base, standing *)
(* for (hi * Base + lo) / Base^2; all values met are below 8 and, unless 0,*)
(* at least 1/16, so that every double among them is such a value.         *)
(***************************************************************************)
Base == 2^28

Zero == <<0, 0>>
One == <<Base, 0>>
Infinity == <<2147483647, 0>>

FLess(x, y) == x[1] < y[1] \/ (x[1] = y[1] /\ x[2] < y[2])
FLeq(x, y) == x = y \/ FLess(x, y)

\* the exact sum and the exact difference (x >= y) of two values
ExactAdd(x, y) ==
  LET lo == x[2] + y[2] IN <<x[1] + y[1] + (lo \div Base), lo % Base>>

ExactSub(x, y) ==
  LET lo == x[2] - y[2]
  IN  IF lo < 0 THEN <<x[1] - y[1] - 1, lo + Base>> ELSE <<x[1] - y[1], lo>>

\* the spacing of the doubles in the binade of x, in units of 1 / Base^2
Ulp(x) ==
  IF x[1] >= 4 * Base THEN 64
  ELSE IF x[1] >= 2 * Base THEN 32
  ELSE IF x[1] >= Base THEN 16
  ELSE IF 2 * x[1] >= Base THEN 8
  ELSE IF 4 * x[1] >= Base THEN 4
  ELSE IF 8 * x[1] >= Base THEN 2
  ELSE 1

\* round-to-nearest, ties-to-even, of the exact value x + num/den units
\* (0 <= num < den) to a double
RoundToDouble(x, num, den) ==
  LET g == Ulp(x)
      r == x[2] % g
      down == <<x[1], x[2] - r>>
      twice == 2 * (r * den + num)
      odd == ((x[2] \div g) % 2) = 1
      up == twice > g * den \/ (twice = g * den /\ odd)
  IN  IF up THEN ExactAdd(down, <<0, g>>) ELSE down

\* the double operations the code uses
FAdd(x, y) == RoundToDouble(ExactAdd(x, y), 0, 1)
FSub(x, y) == RoundToDouble(ExactSub(x, y), 0, 1)

\* x * 0.5; exact, because every value met is an even number of units
FHalf(x) == <<x[1] \div 2, (x[2] + (x[1] % 2) * Base) \div 2>>

\* the double quotient i / u of two small whole numbers, 0 <= i <= u
FDiv(i, u) ==
  LET r1 == (i * Base) % u
      q == <<(i * Base) \div u, (r1 * Base) \div u>>
  IN  RoundToDouble(q, (r1 * Base) % u, u)

(***************************************************************************)
(* Topic records and the inputs of the model.                              *)
(***************************************************************************)
\* an absent parentTopicId (undefined)
None == "none"
\* the null of a result or of the predecessor map
Null == "null"
\* an id that no topic of any list carries
Unknown == "unknown"
\* a parentTopicId that names no topic of the list
Ghost == "ghost"

IdNames == <<"t1", "t2", "t3", "t4", "t5", "t6">>

Ids(n) == {IdNames[i] : i \in 1..n}

\* the texts (name, content) the topics of the graph specifications carry:
\* their significant words are {red, fox, owl} and {fox, red}
Docs ==
  { [name |-> <<"R", "e", "d">>,
     content |-> <<"t", "h", "e", " ", "r", "e", "d", "-", "f", "o", "x", ",", " ", "O", "w", "l">>],
    [name |-> <<"F", "o", "x">>,
     content |-> <<"A", " ", "R", "E", "D", " ", "f", "o", "x", " ", "i", "s">>] }

\* the names and contents the topics of the weight specification carry
WeightNames ==
  { <<>>,
    <<"O", "w", "l">>,
    <<"E", "l", "k">> }

WeightContents ==
  { <<>>,
    <<"r", "e", "d", " ", "f", "o", "x">>,
    <<"T", "h", "e", " ", "r", "e", "d", ",", " ", "R", "E", "D", " ", "f", "o", "x", "!">>,
    <<"e", "l", "k">>,
    <<"a", "n", " ", "o", "w", "l">>,
    <<"t", "o", " ", "b", "e", " ", "o", "r">>,
    <<"o", "w", "l", "_", "1", " ", "o", "f">> }

WeightDocs == [name : WeightNames, content : WeightContents]

\* the texts of the model (name + ' ' + content, and the contents alone),
\* with their significant words worked out once
Texts ==
  {d.name \o <<" ">> \o d.content :
     d \in Docs \cup WeightDocs
           \cup [name : {x.name : x \in Docs}, content : {x.content : x \in Docs}]}
  \cup WeightContents

WordTable == [text \in Texts |-> SignificantWords(text)]

extractWords(text) == WordTable[text]

Topic(id, doc, parent) ==
  [id |-> id, name |-> doc.name, content |-> doc.content, parentTopicId |-> parent]

\* every list of n topics t1..tn whose parentTopicId is absent, dangling or
\* the id of any topic of the list (itself included)
TopicLists(n) ==
  {[i \in 1..n |-> Topic(IdNames[i], d[i], p[i])] :
     d \in [1..n -> Docs], p \in [1..n -> {None, Ghost} \cup Ids(n)]}

(***************************************************************************)
(* The state: the two maps of a TopicPathFinder, each in insertion order,  *)
(* and the last query with what it returned.                               *)
(***************************************************************************)
VARIABLES
  topics,         \* this.topics: the entries of the Map, a sequence of records
  adjacencyList,  \* this.adjacencyList: id -> the Set of neighbours, a sequence
  call,           \* the query being answered, [op |-> "none"] when there is none
  result,         \* what the query returned
  topicsDb,       \* TopicService: the records of the topics table, in Map order
  versionsDb,     \* TopicService: the records of the topic versions table
  pathFinder,     \* TopicService.pathFinder: Null, or set (its maps are the two above)
  created,        \* the number of records created so far (ids are never reused)
  pendingWrite,   \* the write that has saved its tables and not yet reset the cache
  usersDb         \* UserService: the records of the users table, in Map order

\* the state of the services
service == <<topicsDb, versionsDb, pathFinder, created, pendingWrite, usersDb>>

vars ==
  <<topics, adjacencyList, call, result, topicsDb, versionsDb, pathFinder, created,
    pendingWrite, usersDb>>

\* Map.prototype.set on a sequence of entries keyed by id
MapSet(m, topic) ==
  IF \E i \in 1..Len(m) : m[i].id = topic.id
    THEN [i \in 1..Len(m) |-> IF m[i].id = topic.id THEN topic ELSE m[i]]
    ELSE Append(m, topic)

\* Set.prototype.add on a sequence without repetitions
SetAdd(s, x) == IF x \in Range(s) THEN s ELSE Append(s, x)

Keys(m) == [i \in 1..Len(m) |-> m[i].id]
Has(m, id) == \E i \in 1..Len(m) : m[i].id = id
Get(m, id) == m[CHOOSE i \in 1..Len(m) : m[i].id = id]

RECURSIVE InitMaps(_, _, _)
InitMaps(list, i, m) ==
  IF i > Len(list) THEN m ELSE InitMaps(list, i + 1, MapSet(m, list[i]))

RECURSIVE AddEdges(_, _, _, _)
AddEdges(list, i, m, adj) ==
  IF i > Len(list) THEN adj
  ELSE LET t == list[i]
           p == t.parentTopicId
       IN  IF p # None /\ Has(m, p)
             THEN LET a1 == [adj EXCEPT ![p] = SetAdd(@, t.id)]
                  IN  AddEdges(list, i + 1, m, [a1 EXCEPT ![t.id] = SetAdd(@, p)])
             ELSE AddEdges(list, i + 1, m, adj)

\* TopicPathFinder.buildGraph on empty maps: the two maps it leaves
buildGraph(list) ==
  LET m == InitMaps(list, 1, <<>>)
  IN  [topics |-> m,
       adjacencyList |-> AddEdges(list, 1, m, [id \in Range(Keys(m)) |-> <<>>])]

\* this.adjacencyList.get(id) || new Set()
Neighbors(id) == IF id \in DOMAIN adjacencyList THEN adjacencyList[id] ELSE <<>>

(***************************************************************************)
(* Edge weights.                                                           *)
(***************************************************************************)
\* calculateContentSimilarity dividing by the size of words1 instead of the
\* size of the union
calculateContentSimilarity_OverFirst(topic1, topic2) ==
  LET words1 == extractWords(topic1.name \o <<" ">> \o topic1.content)
      words2 == extractWords(topic2.name \o <<" ">> \o topic2.content)
  IN  IF Cardinality(words1) = 0 \/ Cardinality(words2) = 0
        THEN Zero
        ELSE FDiv(Cardinality(words1 \cap words2), Cardinality(words1))

\* calculateContentSimilarity reading the contents alone, without the names
calculateContentSimilarity_ContentOnly(topic1, topic2) ==
  LET words1 == extractWords(topic1.content)
      words2 == extractWords(topic2.content)
  IN  IF Cardinality(words1) = 0 \/ Cardinality(words2) = 0
        THEN Zero
        ELSE FDiv(Cardinality(words1 \cap words2), Cardinality(words1 \cup words2))

\* TopicPathFinder.calculateContentSimilarity: the Jaccard similarity of the
\* significant words of name + ' ' + content, a double
calculateContentSimilarity(topic1, topic2) ==
  LET words1 == extractWords(topic1.name \o <<" ">> \o topic1.content)
      words2 == extractWords(topic2.name \o <<" ">> \o topic2.content)
  IN  IF Cardinality(words1) = 0 \/ Cardinality(words2) = 0
        THEN Zero
        ELSE FDiv(Cardinality(words1 \cap words2), Cardinality(words1 \cup words2))

\* Weight with the similarity term added on the way from a child to its
\* parent only
Weight_ChildToParent(fromTopic, toTopic) ==
  IF fromTopic.parentTopicId = toTopic.id
    THEN FAdd(One, FHalf(FSub(One, calculateContentSimilarity(fromTopic, toTopic))))
    ELSE One

\* the weight of two topic records: 1 + (1 - similarity) * 0.5
Weight(fromTopic, toTopic) ==
  FAdd(One, FHalf(FSub(One, calculateContentSimilarity(fromTopic, toTopic))))

\* TopicPathFinder.getEdgeWeight
getEdgeWeight(fromId, toId) == Weight(Get(topics, fromId), Get(topics, toId))

\* TopicPathFinder.calculatePathDistance: the weights added up from the
\* first edge of the path to the last
RECURSIVE calculatePathDistance(_)
calculatePathDistance(path) ==
  IF Len(path) <= 1 THEN Zero
  ELSE FAdd(calculatePathDistance(SubSeq(path, 1, Len(path) - 1)),
            getEdgeWeight(path[Len(path) - 1], path[Len(path)]))

(***************************************************************************)
(* findShortestPath.                                                       *)
(***************************************************************************)
\* MinUnvisited without the running minimum: the first node of unvisited
\* whose distance is below Infinity
RECURSIVE MinUnvisited_FirstFinite(_, _, _, _)
MinUnvisited_FirstFinite(unvisited, i, distances, best) ==
  IF i > Len(unvisited) THEN best
  ELSE IF best.currentNode = Null /\ FLess(distances[unvisited[i]], best.minDistance)
    THEN MinUnvisited_FirstFinite(unvisited, i + 1, distances,
           [currentNode |-> unvisited[i], minDistance |-> distances[unvisited[i]]])
    ELSE MinUnvisited_FirstFinite(unvisited, i + 1, distances, best)

\* lines 163-172: the first node of unvisited, in insertion order, whose
\* distance is below every earlier one and below Infinity
RECURSIVE MinUnvisited(_, _, _, _)
MinUnvisited(unvisited, i, distances, best) ==
  IF i > Len(unvisited) THEN best
  ELSE IF FLess(distances[unvisited[i]], best.minDistance)
    THEN MinUnvisited(unvisited, i + 1, distances,
           [currentNode |-> unvisited[i], minDistance |-> distances[unvisited[i]]])
    ELSE MinUnvisited(unvisited, i + 1, distances, best)

\* Relax without the comparison of line 197: the last neighbour to reach a
\* node sets its distance
RECURSIVE Relax_NoCompare(_, _, _, _, _)
Relax_NoCompare(currentNode, neighbors, i, visited, maps) ==
  IF i > Len(neighbors) THEN maps
  ELSE LET neighborId == neighbors[i]
           newDistance == FAdd(maps.distances[currentNode],
                               getEdgeWeight(currentNode, neighborId))
       IN  IF neighborId \notin visited
             THEN Relax_NoCompare(currentNode, neighbors, i + 1, visited,
                    [distances |-> [maps.distances EXCEPT ![neighborId] = newDistance],
                     previous |-> [maps.previous EXCEPT ![neighborId] = currentNode]])
             ELSE Relax_NoCompare(currentNode, neighbors, i + 1, visited, maps)

\* lines 187-201: relax the neighbours of currentNode, in insertion order
RECURSIVE Relax(_, _, _, _, _)
Relax(currentNode, neighbors, i, visited, maps) ==
  IF i > Len(neighbors) THEN maps
  ELSE LET neighborId == neighbors[i]
           newDistance == FAdd(maps.distances[currentNode],
                               getEdgeWeight(currentNode, neighborId))
       IN  IF neighborId \notin visited /\ FLess(newDistance, maps.distances[neighborId])
             THEN Relax(currentNode, neighbors, i + 1, visited,
                    [distances |-> [maps.distances EXCEPT ![neighborId] = newDistance],
                     previous |-> [maps.previous EXCEPT ![neighborId] = currentNode]])
             ELSE Relax(currentNode, neighbors, i + 1, visited, maps)

Remove(s, x) == SelectSeq(s, LAMBDA y : y # x)

\* lines 161-202: the main loop
RECURSIVE Dijkstra(_, _, _, _)
Dijkstra(endId, maps, visited, unvisited) ==
  IF Len(unvisited) = 0 THEN maps
  ELSE LET best == MinUnvisited(unvisited, 1, maps.distances,
                     [currentNode |-> Null, minDistance |-> Infinity])
           currentNode == best.currentNode
       IN  IF currentNode = Null THEN maps
           ELSE IF currentNode = endId THEN maps
           ELSE Dijkstra(endId,
                  Relax(currentNode, Neighbors(currentNode), 1,
                        visited \cup {currentNode}, maps),
                  visited \cup {currentNode}, Remove(unvisited, currentNode))

\* TopicPathFinder.reconstructPath
RECURSIVE WalkBack(_, _, _, _)
WalkBack(previous, startId, currentId, path) ==
  IF currentId = Null THEN path
  ELSE IF currentId = startId THEN <<currentId>> \o path
  ELSE WalkBack(previous, startId, previous[currentId], <<currentId>> \o path)

\* reconstructPath without the test of line 295
reconstructPath_NoStartTest(previous, startId, endId) ==
  WalkBack(previous, startId, endId, <<>>)

reconstructPath(previous, startId, endId) ==
  LET path == WalkBack(previous, startId, endId, <<>>)
  IN  IF Len(path) = 0 \/ path[1] # startId THEN <<>> ELSE path

\* Hydrate taking the records in the order of the map instead of the path
Hydrate_MapOrder(path) == [i \in 1..Len(path) |-> topics[i]]

Hydrate(path) == [i \in 1..Len(path) |-> Get(topics, path[i])]

\* TopicPathFinder.findShortestPath: <<>> for null, else <<the ShortestPath>>
findShortestPath(startId, endId) ==
  IF ~Has(topics, startId) \/ ~Has(topics, endId) THEN <<>>
  ELSE IF startId = endId
    THEN <<[path |-> <<startId>>, distance |-> Zero, topics |-> Hydrate(<<startId>>)]>>
  ELSE LET ids == Range(Keys(topics))
           maps == Dijkstra(endId,
                     [distances |-> [id \in ids |-> IF id = startId THEN Zero ELSE Infinity],
                      previous |-> [id \in ids |-> Null]],
                     {}, Keys(topics))
           path == reconstructPath(maps.previous, startId, endId)
       IN  IF Len(path) = 0 THEN <<>>
           ELSE <<[path |-> path, distance |-> maps.distances[endId],
                   topics |-> Hydrate(path)]>>

(***************************************************************************)
(* findAllPaths.                                                           *)
(***************************************************************************)
\* TopicPathFinder.dfsAllPaths: the paths it pushes to allPaths, in order.
\* The visited set of the code holds exactly the ids of currentPath.
RECURSIVE dfsAllPaths(_, _, _, _)
RECURSIVE DfsNeighbors(_, _, _, _, _)
\* dfsAllPaths without the depth test of line 338
dfsAllPaths_NoDepthTest(currentId, endId, currentPath, maxDepth) ==
  LET path == Append(currentPath, currentId)
  IN  IF currentId = endId THEN <<path>>
      ELSE DfsNeighbors(Neighbors(currentId), 1, endId, path, maxDepth)

dfsAllPaths(currentId, endId, currentPath, maxDepth) ==
  IF Len(currentPath) > maxDepth THEN <<>>
  ELSE LET path == Append(currentPath, currentId)
       IN  IF currentId = endId THEN <<path>>
           ELSE DfsNeighbors(Neighbors(currentId), 1, endId, path, maxDepth)

DfsNeighbors(neighbors, i, endId, path, maxDepth) ==
  IF i > Len(neighbors) THEN <<>>
  ELSE (IF neighbors[i] \notin Range(path)
          THEN dfsAllPaths(neighbors[i], endId, path, maxDepth)
          ELSE <<>>)
       \o DfsNeighbors(neighbors, i + 1, endId, path, maxDepth)

RECURSIVE InsertByDistance(_, _)
\* InsertByDistance putting every element last: the array is left unsorted
InsertByDistance_Unsorted(sorted, x) == Append(sorted, x)

\* Array.prototype.sort((a, b) => a.distance - b.distance): stable
InsertByDistance(sorted, x) ==
  IF Len(sorted) = 0 THEN <<x>>
  ELSE IF FLess(x.distance, sorted[Len(sorted)].distance)
    THEN Append(InsertByDistance(SubSeq(sorted, 1, Len(sorted) - 1), x),
                sorted[Len(sorted)])
    ELSE Append(sorted, x)

RECURSIVE SortByDistance(_)
SortByDistance(s) ==
  IF Len(s) = 0 THEN <<>>
  ELSE InsertByDistance(SortByDistance(SubSeq(s, 1, Len(s) - 1)), s[Len(s)])

\* TopicPathFinder.findAllPaths
findAllPaths(startId, endId, maxDepth) ==
  IF ~Has(topics, startId) \/ ~Has(topics, endId) THEN <<>>
  ELSE LET allPaths == dfsAllPaths(startId, endId, <<>>, maxDepth)
       IN  SortByDistance(
             [i \in 1..Len(allPaths) |->
                [path |-> allPaths[i],
                 distance |-> calculatePathDistance(allPaths[i]),
                 topics |-> Hydrate(allPaths[i])]])

(***************************************************************************)
(* The parent-chain walks.  The state of either loop that decides its next *)
(* iteration is currentId alone, so a loop that meets an id a second time  *)
(* never leaves: the walk then has no value (ok is FALSE).                 *)
(***************************************************************************)
\* topic?.parentTopicId
ParentOf(currentId) ==
  IF Has(topics, currentId) THEN Get(topics, currentId).parentTopicId ELSE None

\* TopicPathFinder.getAncestors
RECURSIVE AncestorsFrom(_, _)
AncestorsFrom(currentId, ancestors) ==
  IF currentId = None THEN [ok |-> TRUE, list |-> ancestors]
  ELSE IF currentId \in Range(ancestors) THEN [ok |-> FALSE, list |-> ancestors]
  ELSE AncestorsFrom(ParentOf(currentId), Append(ancestors, currentId))

getAncestors(topicId) == AncestorsFrom(topicId, <<>>)

\* TopicPathFinder.getTopicDepth
RECURSIVE DepthFrom(_, _, _)
DepthFrom(currentId, depth, seen) ==
  IF ParentOf(currentId) = None THEN [ok |-> TRUE, depth |-> depth]
  ELSE IF currentId \in seen THEN [ok |-> FALSE, depth |-> depth]
  ELSE DepthFrom(ParentOf(currentId), depth + 1, seen \cup {currentId})

getTopicDepth(topicId) == DepthFrom(topicId, 0, {})

\* lines 390-399: the first of commonAncestors whose depth no other exceeds
RECURSIVE Closest(_, _, _)
Closest(commonAncestors, i, best) ==
  IF i > Len(commonAncestors) THEN best
  ELSE IF getTopicDepth(commonAncestors[i]).depth > getTopicDepth(best).depth
    THEN Closest(commonAncestors, i + 1, commonAncestors[i])
    ELSE Closest(commonAncestors, i + 1, best)

\* findClosestCommonAncestor without the test of line 375
findClosestCommonAncestor_NoHasTest(topicId1, topicId2) ==
  LET ancestors1 == getAncestors(topicId1)
      ancestors2 == getAncestors(topicId2)
      commonAncestors ==
        SelectSeq(ancestors1.list, LAMBDA a : a \in Range(ancestors2.list))
  IN  IF ~ancestors1.ok \/ ~ancestors2.ok THEN [returned |-> FALSE]
      ELSE IF Len(commonAncestors) = 0 THEN [returned |-> TRUE, value |-> Null]
      ELSE [returned |-> TRUE,
            value |-> Closest(commonAncestors, 1, commonAncestors[1])]

\* TopicPathFinder.findClosestCommonAncestor: returned is FALSE when a walk
\* never ends, else value is the id or Null
findClosestCommonAncestor(topicId1, topicId2) ==
  IF ~Has(topics, topicId1) \/ ~Has(topics, topicId2)
    THEN [returned |-> TRUE, value |-> Null]
  ELSE LET ancestors1 == getAncestors(topicId1)
           ancestors2 == getAncestors(topicId2)
           commonAncestors ==
             SelectSeq(ancestors1.list, LAMBDA a : a \in Range(ancestors2.list))
       IN  IF ~ancestors1.ok \/ ~ancestors2.ok THEN [returned |-> FALSE]
           ELSE IF Len(commonAncestors) = 0 THEN [returned |-> TRUE, value |-> Null]
           ELSE [returned |-> TRUE,
                 value |-> Closest(commonAncestors, 1, commonAncestors[1])]

(***************************************************************************)
(* findTopicsWithinDistance.                                               *)
(***************************************************************************)
\* the distances Map: entries [topicId, distance] in insertion order
DistHas(distances, id) == \E i \in 1..Len(distances) : distances[i].topicId = id
DistGet(distances, id) ==
  distances[CHOOSE i \in 1..Len(distances) : distances[i].topicId = id].distance
DistSet(distances, id, d) ==
  IF DistHas(distances, id)
    THEN [i \in 1..Len(distances) |->
            IF distances[i].topicId = id THEN [topicId |-> id, distance |-> d]
            ELSE distances[i]]
    ELSE Append(distances, [topicId |-> id, distance |-> d])

\* lines 466-480: the neighbours of the dequeued node, in insertion order
RECURSIVE Expand(_, _, _, _, _, _)
Expand(current, neighbors, i, visited, maxDistance, st) ==
  IF i > Len(neighbors) THEN st
  ELSE LET neighborId == neighbors[i]
           newDistance == FAdd(current.distance,
                               getEdgeWeight(current.topicId, neighborId))
       IN  IF neighborId \notin visited
              /\ FLeq(newDistance, maxDistance)
              /\ (~DistHas(st.distances, neighborId)
                  \/ FLess(newDistance, DistGet(st.distances, neighborId)))
             THEN Expand(current, neighbors, i + 1, visited, maxDistance,
                    [distances |-> DistSet(st.distances, neighborId, newDistance),
                     queue |-> Append(st.queue,
                                 [topicId |-> neighborId, distance |-> newDistance,
                                  parent |-> current.topicId])])
             ELSE Expand(current, neighbors, i + 1, visited, maxDistance, st)

\* lines 453-481: the queue is served first in, first out
RECURSIVE Sweep(_, _, _, _)
Sweep(queue, visited, distances, maxDistance) ==
  IF Len(queue) = 0 THEN distances
  ELSE LET current == Head(queue)
       IN  IF current.topicId \in visited
             THEN Sweep(Tail(queue), visited, distances, maxDistance)
           ELSE IF FLeq(maxDistance, current.distance)
             THEN Sweep(Tail(queue), visited \cup {current.topicId}, distances,
                        maxDistance)
           ELSE LET st == Expand(current, Neighbors(current.topicId), 1,
                                 visited \cup {current.topicId}, maxDistance,
                                 [distances |-> distances, queue |-> Tail(queue)])
                IN  Sweep(st.queue, visited \cup {current.topicId}, st.distances,
                          maxDistance)

\* TopicPathFinder.findTopicsWithinDistance: the PathNodes it returns
findTopicsWithinDistance(topicId, maxDistance) ==
  IF ~Has(topics, topicId) THEN <<>>
  ELSE LET distances ==
             Sweep(<<[topicId |-> topicId, distance |-> Zero, parent |-> None]>>, {},
                   <<[topicId |-> topicId, distance |-> Zero]>>, maxDistance)
       IN  SortByDistance(SelectSeq(distances,
                                    LAMBDA node : FLeq(node.distance, maxDistance)))

(***************************************************************************)
(* getGraphStats.                                                          *)
(***************************************************************************)
RECURSIVE SumSizes(_, _)
SumSizes(keys, i) ==
  IF i > Len(keys) THEN 0 ELSE Len(adjacencyList[keys[i]]) + SumSizes(keys, i + 1)

\* Math.max(...depths): <<>> stands for -Infinity, the maximum of no number
RECURSIVE MaxOf(_, _, _)
MaxOf(depths, i, best) ==
  IF i > Len(depths) THEN best
  ELSE IF Len(best) = 0 \/ depths[i] > best[1]
    THEN MaxOf(depths, i + 1, <<depths[i]>>)
    ELSE MaxOf(depths, i + 1, best)

\* TopicPathFinder.getGraphStats: returned is FALSE when a depth walk never
\* ends; edgeCount is the double (sum of the set sizes) / 2
getGraphStats ==
  LET keys == Keys(topics)
      depths == [i \in 1..Len(keys) |-> getTopicDepth(keys[i])]
      roots == SelectSeq(topics, LAMBDA topic : topic.parentTopicId = None)
  IN  IF \E i \in 1..Len(keys) : ~depths[i].ok THEN [returned |-> FALSE]
      ELSE [returned |-> TRUE,
            value |-> [nodeCount |-> Len(topics),
                       edgeCount |-> FHalf(<<SumSizes(keys, 1) * Base, 0>>),
                       maxDepth |-> MaxOf([i \in 1..Len(keys) |-> depths[i].depth],
                                          1, <<>>),
                       rootNodes |-> [i \in 1..Len(roots) |-> roots[i].id]]]

(***************************************************************************)
(* The operations.  A query is answered while no other is (the class is    *)
(* synchronous); Return hands the value to the caller.  A query that never *)
(* returns leaves the process in it for good.                              *)
(***************************************************************************)
NoCall == [op |-> "none"]
NoResult == [returned |-> FALSE]

\* new TopicPathFinder(list)
Construct(list) ==
  /\ topics = buildGraph(list).topics
  /\ adjacencyList = buildGraph(list).adjacencyList
  /\ call = NoCall
  /\ result = NoResult
  /\ topicsDb = <<>>
  /\ versionsDb = <<>>
  /\ pathFinder = Null
  /\ created = 0
  /\ pendingWrite = NoCall
  /\ usersDb = <<>>

\* the ids a caller passes: those of the graph and one that is not
Args == Range(Keys(topics)) \cup {Unknown}

\* the maxDistance values a caller passes: 0, 1, 1.5, 2, 3, 4
MaxDistances ==
  {Zero, One, <<3 * (Base \div 2), 0>>, <<2 * Base, 0>>, <<3 * Base, 0>>,
   <<4 * Base, 0>>}

FindShortestPath(startId, endId) ==
  /\ call = NoCall
  /\ call' = [op |-> "findShortestPath", startId |-> startId, endId |-> endId]
  /\ result' = [returned |-> TRUE, value |-> findShortestPath(startId, endId)]
  /\ UNCHANGED <<topics, adjacencyList, service>>

\* FindAllPaths marking the start as visited by emptying its neighbour set
FindAllPaths_ClearsStart(startId, endId, maxDepth) ==
  /\ call = NoCall
  /\ call' = [op |-> "findAllPaths", startId |-> startId, endId |-> endId,
              maxDepth |-> maxDepth]
  /\ result' = [returned |-> TRUE, value |-> findAllPaths(startId, endId, maxDepth)]
  /\ adjacencyList' = [id \in DOMAIN adjacencyList |->
                         IF id = startId THEN <<>> ELSE adjacencyList[id]]
  /\ UNCHANGED <<topics, service>>

FindAllPaths(startId, endId, maxDepth) ==
  /\ call = NoCall
  /\ call' = [op |-> "findAllPaths", startId |-> startId, endId |-> endId,
              maxDepth |-> maxDepth]
  /\ result' = [returned |-> TRUE, value |-> findAllPaths(startId, endId, maxDepth)]
  /\ UNCHANGED <<topics, adjacencyList, service>>

FindClosestCommonAncestor(topicId1, topicId2) ==
  /\ call = NoCall
  /\ call' = [op |-> "findClosestCommonAncestor", topicId1 |-> topicId1,
              topicId2 |-> topicId2]
  /\ result' = findClosestCommonAncestor(topicId1, topicId2)
  /\ UNCHANGED <<topics, adjacencyList, service>>

FindTopicsWithinDistance(topicId, maxDistance) ==
  /\ call = NoCall
  /\ call' = [op |-> "findTopicsWithinDistance", topicId |-> topicId,
              maxDistance |-> maxDistance]
  /\ result' = [returned |-> TRUE,
                value |-> findTopicsWithinDistance(topicId, maxDistance)]
  /\ UNCHANGED <<topics, adjacencyList, service>>

GetGraphStats ==
  /\ call = NoCall
  /\ call' = [op |-> "getGraphStats"]
  /\ result' = getGraphStats
  /\ UNCHANGED <<topics, adjacencyList, service>>

\* TopicPathFinder.getEdgeWeight, for two ids of the graph
GetEdgeWeight(fromId, toId) ==
  /\ call = NoCall
  /\ call' = [op |-> "getEdgeWeight", fromId |-> fromId, toId |-> toId]
  /\ result' = [returned |-> TRUE, value |-> getEdgeWeight(fromId, toId)]
  /\ UNCHANGED <<topics, adjacencyList, service>>

Return ==
  /\ call # NoCall
  /\ result.returned
  /\ call' = NoCall
  /\ result' = NoResult
  /\ UNCHANGED <<topics, adjacencyList, service>>

(***************************************************************************)
(* The general specification: a path-finder built from any list of at most *)
(* MaxTopics topics, and every query.                                      *)
(***************************************************************************)
Init == \E n \in 0..MaxTopics : \E list \in TopicLists(n) : Construct(list)

Next ==
  \/ \E a, b \in Args : FindShortestPath(a, b)
  \/ \E a, b \in Args : \E d \in 0..MaxDepth : FindAllPaths(a, b, d)
  \/ \E a, b \in Args : FindClosestCommonAncestor(a, b)
  \/ \E a \in Args : \E m \in MaxDistances : FindTopicsWithinDistance(a, m)
  \/ GetGraphStats
  \/ Return

Spec == Init /\ [][Next]_vars

(***************************************************************************)
(* The chain-and-ring specification: the first k topics of the list form a *)
(* parent chain t1 -> t2 -> ... -> tk, closed into a ring (tk -> t1) or    *)
(* not, and every later topic hangs off a topic of the chain.              *)
(***************************************************************************)
RingLists(n) ==
  {[i \in 1..n |->
      Topic(IdNames[i], d[i],
            IF i < c.k THEN IdNames[i + 1]
            ELSE IF i = c.k THEN (IF c.closed THEN IdNames[1] ELSE None)
            ELSE c.tail[i])] :
     d \in [1..n -> Docs],
     c \in UNION {[k : {k}, closed : BOOLEAN, tail : [(k + 1)..n -> Ids(k)]] :
                    k \in 1..n}}

InitRing == \E n \in 1..MaxRingTopics : \E list \in RingLists(n) : Construct(list)

NextRing ==
  \/ \E a, b \in Args : FindShortestPath(a, b)
  \/ \E a \in Args : \E m \in MaxDistances : FindTopicsWithinDistance(a, m)
  \/ Return

SpecRing == InitRing /\ [][NextRing]_vars

(***************************************************************************)
(* What the claims speak of, said without the search loops: nodes, edges,  *)
(* simple paths and the sum of the weights along a path.                   *)
(***************************************************************************)
NodeIds == Range(Keys(topics))

Adjacent(x, y) == x \in DOMAIN adjacencyList /\ y \in Range(adjacencyList[x])

IsPath(p) == \A i \in 1..(Len(p) - 1) : Adjacent(p[i], p[i + 1])

\* the simple paths that continue the simple path prefix and end at b
RECURSIVE PathsOnward(_, _)
PathsOnward(prefix, b) ==
  IF prefix[Len(prefix)] = b THEN {prefix}
  ELSE UNION {PathsOnward(Append(prefix, y), b) :
                y \in {z \in NodeIds : Adjacent(prefix[Len(prefix)], z)
                                       /\ z \notin Range(prefix)}}

SimplePaths(a, b) == PathsOnward(<<a>>, b)

Connected(a, b) == SimplePaths(a, b) # {}

\* the weights of the edges of p added up in the order of p, in doubles
RECURSIVE PathSum(_)
PathSum(p) ==
  IF Len(p) <= 1 THEN Zero
  ELSE FAdd(PathSum(SubSeq(p, 1, Len(p) - 1)),
            Weight(Get(topics, p[Len(p) - 1]), Get(topics, p[Len(p)])))

IsQuery(op) == call.op = op /\ result.returned

(***************************************************************************)
(* C1: for known, different, connected ids a and b, findShortestPath(a, b) *)
(* returns a path from a to b along edges of the graph, and its distance   *)
(* is the sum of the weights along that path and is no greater than that   *)
(* sum along any other path from a to b.                                   *)
(***************************************************************************)
C1_ShortestPathIsShortest ==
  (/\ IsQuery("findShortestPath")
   /\ call.startId \in NodeIds /\ call.endId \in NodeIds
   /\ call.startId # call.endId
   /\ Connected(call.startId, call.endId))
  => /\ Len(result.value) = 1
     /\ LET r == result.value[1]
        IN  /\ Len(r.path) >= 2
            /\ r.path[1] = call.startId
            /\ r.path[Len(r.path)] = call.endId
            /\ IsPath(r.path)
            /\ r.distance = PathSum(r.path)
            /\ \A p \in SimplePaths(call.startId, call.endId) :
                 FLeq(r.distance, PathSum(p))

\* a shortest path of three edges was returned where a second route exists
C1_Witness ==
  /\ IsQuery("findShortestPath")
  /\ Len(result.value) = 1
  /\ Len(result.value[1].path) = 4
  /\ Cardinality(SimplePaths(call.startId, call.endId)) = 2
  /\ \E p \in SimplePaths(call.startId, call.endId) :
       FLess(result.value[1].distance, PathSum(p))

(***************************************************************************)
(* C2: for known ids, findShortestPath returns null exactly when no path   *)
(* joins the two ids in the graph.                                         *)
(***************************************************************************)
C2_NullIffDisconnected ==
  (/\ IsQuery("findShortestPath")
   /\ call.startId \in NodeIds /\ call.endId \in NodeIds)
  => (Len(result.value) = 0 <=> ~Connected(call.startId, call.endId))

\* null was returned for two known ids, the first of which has a neighbour
\* other than itself
C2_Witness ==
  /\ IsQuery("findShortestPath")
  /\ call.startId \in NodeIds /\ call.endId \in NodeIds
  /\ \E x \in NodeIds : x # call.startId /\ Adjacent(call.startId, x)
  /\ Len(result.value) = 0

(***************************************************************************)
(* C5 as claimed: for known, connected ids a and b, findShortestPath(a, b) *)
(* and findShortestPath(b, a) report the same distance.                    *)
(***************************************************************************)
Reverse == findShortestPath(call.endId, call.startId)

C5_SameDistanceBothWays ==
  (IsQuery("findShortestPath") /\ Len(result.value) = 1)
  => /\ Len(Reverse) = 1
     /\ Reverse[1].distance = result.value[1].distance

(***************************************************************************)
(* C5 as amended: the two distances are equal when the returned path has   *)
(* at most two edges, and otherwise differ by no more than one unit in the *)
(* last place per topic of the graph.                                      *)
(***************************************************************************)
Gap(x, y) == IF FLess(x, y) THEN ExactSub(y, x) ELSE ExactSub(x, y)
Larger(x, y) == IF FLess(x, y) THEN y ELSE x

C5_SameDistanceUpToRounding ==
  (IsQuery("findShortestPath") /\ Len(result.value) = 1)
  => /\ Len(Reverse) = 1
     /\ LET d1 == result.value[1].distance
            d2 == Reverse[1].distance
        IN  /\ Len(result.value[1].path) <= 3 => d1 = d2
            /\ FLeq(Gap(d1, d2), <<0, Len(topics) * Ulp(Larger(d1, d2))>>)

\* a path of three edges whose two directions report different distances
C5_Witness ==
  /\ IsQuery("findShortestPath")
  /\ Len(result.value) = 1
  /\ Len(result.value[1].path) = 4
  /\ Len(Reverse) = 1
  /\ Reverse[1].distance # result.value[1].distance

(***************************************************************************)
(* C6: for a known id and maxDistance >= 0, the ids findTopicsWithinDistance*)
(* returns are exactly the nodes whose least distance from id is at most   *)
(* maxDistance.                                                            *)
(***************************************************************************)
WithinReach(a, maxDistance) ==
  {n \in NodeIds : \E p \in SimplePaths(a, n) : FLeq(PathSum(p), maxDistance)}

C6_WithinDistanceIsTheBall ==
  (IsQuery("findTopicsWithinDistance") /\ call.topicId \in NodeIds)
  => {result.value[i].topicId : i \in 1..Len(result.value)}
       = WithinReach(call.topicId, call.maxDistance)

(***************************************************************************)
(* The weight specification: two topics t1 and t2 with any name and any    *)
(* content of the pools, t2 a child of t1 or not, and the weight of the    *)
(* two in either order (the queries never weigh a topic against itself).   *)
(***************************************************************************)
InitWeight ==
  \E d1, d2 \in WeightDocs : \E p \in {None, "t1"} :
    Construct(<<Topic("t1", d1, None), Topic("t2", d2, p)>>)

NextWeight ==
  \/ \E a, b \in NodeIds : a # b /\ GetEdgeWeight(a, b)
  \/ Return

SpecWeight == InitWeight /\ [][NextWeight]_vars

\* the significant words of a record, and of its content alone
FullWords(topic) == extractWords(topic.name \o <<" ">> \o topic.content)
ContentWords(topic) == extractWords(topic.content)

OneAndHalf == <<Base + Base \div 2, 0>>

\* 1 + (1 - i/u) / 2 as a real number, rounded down to a whole number of units
RealWeight(i, u) ==
  LET r1 == ((u - i) * Base) % u
  IN  ExactAdd(One, FHalf(<<((u - i) * Base) \div u, (r1 * Base) \div u>>))

(***************************************************************************)
(* C9: the weight of two records is 1 + (1 - J) * 0.5, J the Jaccard       *)
(* similarity of their significant-word sets and 0 when either is empty    *)
(* (here: within one unit in the last place of that real number); it lies  *)
(* between 1 and 1.5 and is the same in both directions.                   *)
(***************************************************************************)
C9_WeightFormulaRangeSymmetry ==
  IsQuery("getEdgeWeight")
  => LET w == result.value
         A == FullWords(Get(topics, call.fromId))
         B == FullWords(Get(topics, call.toId))
     IN  /\ FLeq(One, w) /\ FLeq(w, OneAndHalf)
         /\ w = getEdgeWeight(call.toId, call.fromId)
         /\ IF A = {} \/ B = {} THEN w = OneAndHalf
            ELSE FLeq(Gap(w, RealWeight(Cardinality(A \cap B), Cardinality(A \cup B))),
                      <<0, Ulp(One)>>)

\* the weight of two records of which one has no significant word and the
\* other has some
C9_Witness ==
  /\ IsQuery("getEdgeWeight")
  /\ FullWords(Get(topics, call.fromId)) = {}
  /\ FullWords(Get(topics, call.toId)) # {}
  /\ result.value = OneAndHalf

(***************************************************************************)
(* C10 as claimed: if the contents of a and b share all significant words  *)
(* the weight is 1.0, and if they share none it is 1.5, whatever the names.*)
(***************************************************************************)
C10_ContentsDecideWeight ==
  IsQuery("getEdgeWeight")
  => LET A == ContentWords(Get(topics, call.fromId))
         B == ContentWords(Get(topics, call.toId))
     IN  /\ (A = B /\ A # {}) => result.value = One
         /\ (A \cap B = {}) => result.value = OneAndHalf

(***************************************************************************)
(* C10 as amended: the words that count are those of name + ' ' + content: *)
(* if the two sets are equal and not empty the weight is 1.0, and if they  *)
(* have no word in common (also when one is empty) it is 1.5.              *)
(***************************************************************************)
C10_NamesAndContentsDecideWeight ==
  IsQuery("getEdgeWeight")
  => LET A == FullWords(Get(topics, call.fromId))
         B == FullWords(Get(topics, call.toId))
     IN  /\ (A = B /\ A # {}) => result.value = One
         /\ (A \cap B = {}) => result.value = OneAndHalf

\* weight 1.0 for two records whose names differ and whose contents share
\* no significant word
C10_Witness ==
  /\ IsQuery("getEdgeWeight")
  /\ Get(topics, call.fromId).name # Get(topics, call.toId).name
  /\ ContentWords(Get(topics, call.fromId)) \cap ContentWords(Get(topics, call.toId)) = {}
  /\ result.value = One

(***************************************************************************)
(* C3: a query handed an id that is not a node returns its no-result value:*)
(* findShortestPath null, findAllPaths an empty list,                      *)
(* findClosestCommonAncestor null, findTopicsWithinDistance an empty list. *)
(***************************************************************************)
C3_UnknownIdGivesNoResult ==
  /\ (call.op \in {"findShortestPath", "findAllPaths"}
      /\ (call.startId \notin NodeIds \/ call.endId \notin NodeIds))
     => (result.returned /\ Len(result.value) = 0)
  /\ (call.op = "findClosestCommonAncestor"
      /\ (call.topicId1 \notin NodeIds \/ call.topicId2 \notin NodeIds))
     => (result.returned /\ result.value = Null)
  /\ (call.op = "findTopicsWithinDistance" /\ call.topicId \notin NodeIds)
     => (result.returned /\ Len(result.value) = 0)

\* findClosestCommonAncestor answered null for an id that is not a node, on
\* a graph whose parent links form a cycle
C3_Witness ==
  /\ IsQuery("findClosestCommonAncestor")
  /\ call.topicId1 \notin NodeIds /\ call.topicId2 \notin NodeIds
  /\ \E x, y \in NodeIds : x # y /\ ParentOf(x) = y /\ ParentOf(y) = x
  /\ result.value = Null

(***************************************************************************)
(* C4: findClosestCommonAncestor for known ids and getGraphStats return a  *)
(* result on every topic list, parent cycles included.                     *)
(***************************************************************************)
C4_ParentWalksReturn ==
  (call.op \in {"findClosestCommonAncestor", "getGraphStats"}) => result.returned

(***************************************************************************)
(* C7: for known ids, findAllPaths(start, end, maxDepth) returns exactly   *)
(* the simple paths from start to end of at most maxDepth edges, each      *)
(* once, each with the sum of its weights as distance, in non-decreasing   *)
(* order of distance.                                                      *)
(***************************************************************************)
\* the sequences of distinct nodes from a to b whose neighbours in the
\* sequence are neighbours in the graph
SimplePathsByDefinition(a, b) ==
  {p \in UNION {[1..k -> NodeIds] : k \in 1..Cardinality(NodeIds)} :
     /\ p[1] = a /\ p[Len(p)] = b
     /\ \A i, j \in 1..Len(p) : i # j => p[i] # p[j]
     /\ IsPath(p)}

C7_AllSimplePathsWithinDepth ==
  (/\ call.op = "findAllPaths"
   /\ call.startId \in NodeIds /\ call.endId \in NodeIds)
  => /\ result.returned
     /\ LET v == result.value
        IN  /\ {v[i].path : i \in 1..Len(v)}
                 = {p \in SimplePathsByDefinition(call.startId, call.endId) :
                      Len(p) - 1 <= call.maxDepth}
            /\ \A i, j \in 1..Len(v) : i # j => v[i].path # v[j].path
            /\ \A i \in 1..Len(v) : v[i].distance = PathSum(v[i].path)
            /\ \A i \in 1..(Len(v) - 1) : FLeq(v[i].distance, v[i + 1].distance)

\* two paths were returned, the nearer first, found in the other order
C7_Witness ==
  /\ IsQuery("findAllPaths")
  /\ Len(result.value) = 2
  /\ FLess(result.value[1].distance, result.value[2].distance)
  /\ Len(result.value[1].path) = 2
  /\ adjacencyList[call.startId][1] # call.endId

(***************************************************************************)
(* C8: for known ids, findClosestCommonAncestor returns the node that lies *)
(* on both parent chains (a node is on its own chain) and is deepest, and  *)
(* null when the chains share no node; what it returns is null or a node.  *)
(***************************************************************************)
\* the nodes on the parent chain of a node, for a chain that ends
RECURSIVE ChainOf(_)
ChainOf(id) ==
  IF ParentOf(id) \in NodeIds THEN {id} \cup ChainOf(ParentOf(id)) ELSE {id}

C8_ClosestCommonAncestor ==
  (/\ IsQuery("findClosestCommonAncestor")
   /\ call.topicId1 \in NodeIds /\ call.topicId2 \in NodeIds)
  => LET common == ChainOf(call.topicId1) \cap ChainOf(call.topicId2)
     IN  /\ result.value \in NodeIds \cup {Null}
         /\ common = {} => result.value = Null
         /\ common # {} =>
              /\ result.value \in common
              /\ \A x \in common :
                   Cardinality(ChainOf(x)) <= Cardinality(ChainOf(result.value))

(***************************************************************************)
(* The parent links of the topic records, said without the walks.          *)
(***************************************************************************)
\* the node k resolvable parent links above id, None when there is none
RECURSIVE Up(_, _)
Up(id, k) ==
  IF k = 0 THEN id
  ELSE IF ParentOf(id) \in NodeIds THEN Up(ParentOf(id), k - 1) ELSE None

\* no node is above itself
Acyclic == \A id \in NodeIds : \A k \in 1..Cardinality(NodeIds) : Up(id, k) # id

\* the number of resolvable parent links between a node and its root
LinksToRoot(id) == Cardinality({k \in 1..Cardinality(NodeIds) : Up(id, k) # None})

(***************************************************************************)
(* C11: getGraphStats().rootNodes is exactly the set of ids whose          *)
(* parentTopicId is absent or names no topic of the list.                  *)
(***************************************************************************)
C11_RootsAreUnresolvedParents ==
  IsQuery("getGraphStats")
  => Range(result.value.rootNodes) = {id \in NodeIds : ParentOf(id) \notin NodeIds}

(***************************************************************************)
(* C12: on every topic list getGraphStats() gives nodeCount, the number of *)
(* distinct ids, and edgeCount, the whole number of unordered pairs of     *)
(* nodes joined by a resolvable parent link (mutual parents and a topic    *)
(* that is its own parent included).                                       *)
(***************************************************************************)
LinkedPairs == {{id, ParentOf(id)} : id \in {x \in NodeIds : ParentOf(x) \in NodeIds}}

C12_NodeAndEdgeCount ==
  (call.op = "getGraphStats")
  => /\ result.returned
     /\ result.value.nodeCount = Cardinality(NodeIds)
     /\ result.value.edgeCount = <<Cardinality(LinkedPairs) * Base, 0>>

(***************************************************************************)
(* C13: on every list with acyclic parent links getGraphStats().maxDepth   *)
(* is a non-negative integer, the greatest number of resolvable parent     *)
(* links between a node and its root (the empty list and dangling parents  *)
(* included).                                                              *)
(***************************************************************************)
C13_MaxDepthCountsResolvableLinks ==
  (call.op = "getGraphStats" /\ Acyclic)
  => /\ result.returned
     /\ Len(result.value.maxDepth) = 1
     /\ result.value.maxDepth[1] >= 0
     /\ \A id \in NodeIds : LinksToRoot(id) <= result.value.maxDepth[1]
     /\ NodeIds # {} => \E id \in NodeIds : LinksToRoot(id) = result.value.maxDepth[1]

(***************************************************************************)
(* C14: the nodes of the built graph are the ids of the list and y is in   *)
(* adjacencyList[x] exactly when x # y, both are nodes and one is the      *)
(* parent of the other.                                                    *)
(***************************************************************************)
C14_AdjacencyIsTheParentRelation ==
  /\ DOMAIN adjacencyList = NodeIds
  /\ Len(topics) = Cardinality(NodeIds)
  /\ \A x \in NodeIds : \A y \in NodeIds \cup {None, Ghost, Unknown} :
       Adjacent(x, y) <=> /\ x # y
                          /\ y \in NodeIds
                          /\ (ParentOf(x) = y \/ ParentOf(y) = x)

(***************************************************************************)
(* C16: every entry findTopicsWithinDistance returns, other than that of   *)
(* the start node, carries the id of its search-tree parent, a neighbour   *)
(* through which its distance was reached.                                 *)
(***************************************************************************)
C16_EntriesCarrySearchParent ==
  IsQuery("findTopicsWithinDistance")
  => \A i \in 1..Len(result.value) :
       LET e == result.value[i]
       IN  e.topicId # call.topicId
           => /\ "parent" \in DOMAIN e
              /\ Adjacent(e.parent, e.topicId)

(***************************************************************************)
(* C17 as claimed: for known, connected ids a and b the path of            *)
(* findShortestPath(b, a) is the path of findShortestPath(a, b) in reverse *)
(* order, also when several paths have the least distance.                 *)
(***************************************************************************)
Reversed(p) == [i \in 1..Len(p) |-> p[Len(p) + 1 - i]]

C17_ReversePathAlways ==
  (IsQuery("findShortestPath") /\ Len(result.value) = 1)
  => /\ Len(Reverse) = 1
     /\ Reverse[1].path = Reversed(result.value[1].path)

(***************************************************************************)
(* C17 as amended: the two paths are each other's reverse when the         *)
(* returned path is the only one of least distance, that is when every     *)
(* other simple path between the two ids is longer in both directions.     *)
(***************************************************************************)
OnlyShortest(p) ==
  \A q \in SimplePaths(p[1], p[Len(p)]) :
    q # p => /\ FLess(PathSum(p), PathSum(q))
             /\ FLess(PathSum(Reversed(p)), PathSum(Reversed(q)))

C17_ReversePathWhenUnique ==
  (/\ IsQuery("findShortestPath")
   /\ Len(result.value) = 1
   /\ OnlyShortest(result.value[1].path))
  => /\ Len(Reverse) = 1
     /\ Reverse[1].path = Reversed(result.value[1].path)

\* a path of two edges or more was returned where another path joins the two
\* ids, and it is the only shortest one
C17_Witness ==
  /\ IsQuery("findShortestPath")
  /\ Len(result.value) = 1
  /\ Len(result.value[1].path) >= 3
  /\ Cardinality(SimplePaths(call.startId, call.endId)) >= 2
  /\ OnlyShortest(result.value[1].path)
  /\ Reverse[1].path = Reversed(result.value[1].path)

(***************************************************************************)
(* C18: for a known id x, findShortestPath(x, x) returns the path [x] with *)
(* distance 0 and one hydrated record, that of x.                          *)
(***************************************************************************)
C18_PathToItself ==
  (/\ call.op = "findShortestPath"
   /\ call.startId \in NodeIds
   /\ call.endId = call.startId)
  => /\ result.returned
     /\ Len(result.value) = 1
     /\ result.value[1].path = <<call.startId>>
     /\ result.value[1].distance = Zero
     /\ Len(result.value[1].topics) = 1
     /\ result.value[1].topics[1].id = call.startId
     /\ \E i \in 1..Len(topics) : topics[i] = result.value[1].topics[1]

\* the path from the last topic of a list of two or more to itself was asked,
\* and that topic has a neighbour
C18_Witness ==
  /\ IsQuery("findShortestPath")
  /\ call.startId = call.endId
  /\ Len(topics) >= 2
  /\ call.startId = topics[Len(topics)].id
  /\ Len(adjacencyList[call.startId]) > 0
  /\ Len(result.value) = 1

(***************************************************************************)
(* C19: no query changes the node map or the adjacency structure, which    *)
(* stay those of a path-finder freshly built from the same topics.         *)
(***************************************************************************)
C19_QueriesLeaveGraphUnchanged ==
  [][/\ topics' = topics
     /\ adjacencyList' = adjacencyList
     /\ topics' = buildGraph(topics).topics
     /\ adjacencyList' = buildGraph(topics).adjacencyList]_vars

\* findAllPaths has returned two paths or more, found by a search that
\* marked and unmarked nodes on its way
C19_Witness ==
  /\ IsQuery("findAllPaths")
  /\ Len(result.value) >= 2
  /\ adjacencyList = buildGraph(topics).adjacencyList

(***************************************************************************)
(* TopicService over the JsonDatabase tables.  Each call runs from its     *)
(* first line to its return or throw without another call in between; the  *)
(* timestamps of the records and the resources table are left out.  A      *)
(* record carries parentTopicId = None where the stored object has no such *)
(* property.                                                               *)
(***************************************************************************)
\* the number of topics a service creates
MaxServiceTopics == 3
\* the number of writes (updateTopic, moveTopic, revertToVersion) that
\* succeed on the topics of the store
MaxWrites == 3

\* JsonDatabase.update: {...existing, ...updateData, id}, in place in the
\* Map; the parentTopicId that updateData does not have (None) keeps its
\* stored value
DbUpdate(db, id, updateData) ==
  [i \in 1..Len(db) |->
     IF db[i].id # id THEN db[i]
     ELSE [f \in DOMAIN db[i] |->
             IF f = "id" THEN id
             ELSE IF f \in DOMAIN updateData
                     /\ ~(f = "parentTopicId" /\ updateData[f] = None)
               THEN updateData[f]
               ELSE db[i][f]]]

\* JsonDatabase.delete
DbDelete(db, id) == SelectSeq(db, LAMBDA r : r.id # id)

\* Topic.validate: name.trim() and content.trim() are not empty, version > 0
validate(topic) ==
  /\ \E i \in 1..Len(topic.name) : topic.name[i] \notin Whitespace
  /\ \E i \in 1..Len(topic.content) : topic.content[i] \notin Whitespace
  /\ topic.version > 0

\* Topic.toJSON
toJSON(topic) ==
  [id |-> topic.id, name |-> topic.name, content |-> topic.content,
   version |-> topic.version, parentTopicId |-> topic.parentTopicId]

\* VersionRecord giving every record the version number 1
VersionRecord_FirstNumber(versionId, topicData) ==
  [id |-> versionId, originalTopicId |-> topicData.id, version |-> 1,
   name |-> topicData.name, content |-> topicData.content,
   parentTopicId |-> topicData.parentTopicId, isCurrentVersion |-> TRUE]

\* the ITopicVersion the writes save; the first record of a topic has the
\* id of the topic, the later ones a fresh uuid
VersionRecord(versionId, topicData) ==
  [id |-> versionId, originalTopicId |-> topicData.id, version |-> topicData.version,
   name |-> topicData.name, content |-> topicData.content,
   parentTopicId |-> topicData.parentTopicId, isCurrentVersion |-> TRUE]

\* UnflagCurrent leaving every flag as it is
UnflagCurrent_KeepsFlags(db, originalId) == db

\* lines 675-681 and 825-831: the records of the topic flagged current are
\* set to not current
UnflagCurrent(db, originalId) ==
  [i \in 1..Len(db) |->
     IF db[i].originalTopicId = originalId /\ db[i].isCurrentVersion
       THEN [db[i] EXCEPT !.isCurrentVersion = FALSE]
       ELSE db[i]]

\* what a call that throws leaves, and what a write that succeeds leaves
Thrown(message) == [ok |-> FALSE, error |-> message]
Written(tdb, vdb, value) == [ok |-> TRUE, topicsDb |-> tdb, versionsDb |-> vdb, value |-> value]

\* TopicService.wouldCreateCircularReference
RECURSIVE CircularFrom(_, _, _)
CircularFrom(topicId, currentId, visited) ==
  IF currentId = None THEN FALSE
  ELSE IF currentId = topicId THEN TRUE
  ELSE IF currentId \in visited THEN FALSE
  ELSE CircularFrom(topicId,
         IF Has(topicsDb, currentId) THEN Get(topicsDb, currentId).parentTopicId ELSE None,
         visited \cup {currentId})

wouldCreateCircularReference(topicId, newParentId) ==
  CircularFrom(topicId, newParentId, {})

\* TopicService.createTopic; the new id is that of the Topic constructor
createTopic(request) ==
  IF request.parentTopicId # None /\ ~Has(topicsDb, request.parentTopicId)
    THEN Thrown("Parent topic not found")
  ELSE LET topic == [id |-> IdNames[created + 1], name |-> request.name,
                     content |-> request.content,
                     parentTopicId |-> request.parentTopicId, version |-> 1]
           savedTopic == toJSON(topic)
       IN  IF ~validate(topic) THEN Thrown("Invalid topic data")
           ELSE Written(Append(topicsDb, savedTopic),
                        Append(versionsDb, VersionRecord(<<savedTopic.id>>, savedTopic)),
                        savedTopic)

\* TopicService.updateTopic; in the request a parentTopicId of None is
\* undefined and of Null is null, and a name or content of <<>> is undefined
\* or empty (the code tells neither from the other)
updateTopic(id, request) ==
  IF ~Has(topicsDb, id) THEN Thrown("Topic not found")
  ELSE LET currentTopic == Get(topicsDb, id)
           checked == /\ request.parentTopicId # None
                      /\ request.parentTopicId # currentTopic.parentTopicId
                      /\ request.parentTopicId # Null
       IN  IF checked /\ ~Has(topicsDb, request.parentTopicId)
             THEN Thrown("Parent topic not found")
           ELSE IF checked /\ wouldCreateCircularReference(id, request.parentTopicId)
             THEN Thrown("Cannot set parent: would create circular reference")
           ELSE LET topic ==
                      [id |-> id,
                       name |-> IF Len(request.name) > 0
                                  THEN request.name ELSE currentTopic.name,
                       content |-> IF Len(request.content) > 0
                                     THEN request.content ELSE currentTopic.content,
                       parentTopicId |->
                         IF request.parentTopicId \notin {None, Null}
                           THEN request.parentTopicId ELSE currentTopic.parentTopicId,
                       version |-> currentTopic.version + 1]
                    tdb == DbUpdate(topicsDb, id, toJSON(topic))
                    updatedTopic == Get(tdb, id)
                IN  IF ~validate(topic) THEN Thrown("Invalid topic data")
                    ELSE Written(tdb,
                           Append(UnflagCurrent(versionsDb, id),
                                  VersionRecord(<<id, updatedTopic.version>>, updatedTopic)),
                           updatedTopic)

\* TopicService.moveTopic
moveTopic(topicId, newParentId) ==
  IF ~Has(topicsDb, topicId) THEN Thrown("Topic not found")
  ELSE IF newParentId # Null /\ ~Has(topicsDb, newParentId)
    THEN Thrown("Parent topic not found")
  ELSE IF newParentId # Null /\ wouldCreateCircularReference(topicId, newParentId)
    THEN Thrown("Cannot move topic: would create circular reference")
  ELSE updateTopic(topicId, [name |-> <<>>, content |-> <<>>, parentTopicId |-> newParentId])

\* TopicService.getTopicVersion: the first record of that topic and number
getTopicVersion(originalId, version) ==
  SelectSeq(versionsDb, LAMBDA v : v.originalTopicId = originalId /\ v.version = version)

\* revertToVersion keeping the content of the current topic
revertToVersion_KeepsContent(originalId, version) ==
  LET found == getTopicVersion(originalId, version)
  IN  IF Len(found) = 0 THEN Thrown("Version not found")
      ELSE IF ~Has(topicsDb, originalId) THEN Thrown("Topic not found")
      ELSE LET targetVersion == found[1]
               currentTopic == Get(topicsDb, originalId)
               topic == [id |-> originalId, name |-> targetVersion.name,
                         content |-> currentTopic.content,
                         parentTopicId |->
                           IF targetVersion.parentTopicId # None
                             THEN targetVersion.parentTopicId
                             ELSE currentTopic.parentTopicId,
                         version |-> currentTopic.version + 1]
               tdb == DbUpdate(topicsDb, originalId, toJSON(topic))
               updatedTopic == Get(tdb, originalId)
           IN  Written(tdb,
                 Append(UnflagCurrent(versionsDb, originalId),
                        VersionRecord(<<originalId, updatedTopic.version>>, updatedTopic)),
                 updatedTopic)

\* TopicService.revertToVersion
revertToVersion(originalId, version) ==
  LET found == getTopicVersion(originalId, version)
  IN  IF Len(found) = 0 THEN Thrown("Version not found")
      ELSE IF ~Has(topicsDb, originalId) THEN Thrown("Topic not found")
      ELSE LET targetVersion == found[1]
               currentTopic == Get(topicsDb, originalId)
               topic == [id |-> originalId, name |-> targetVersion.name,
                         content |-> targetVersion.content,
                         parentTopicId |->
                           IF targetVersion.parentTopicId # None
                             THEN targetVersion.parentTopicId
                             ELSE currentTopic.parentTopicId,
                         version |-> currentTopic.version + 1]
               tdb == DbUpdate(topicsDb, originalId, toJSON(topic))
               updatedTopic == Get(tdb, originalId)
           IN  Written(tdb,
                 Append(UnflagCurrent(versionsDb, originalId),
                        VersionRecord(<<originalId, updatedTopic.version>>, updatedTopic)),
                 updatedTopic)

\* TopicService.getTopicChildren calls itself for every child: it returns
\* when no topic below parentId is met a second time on the way down
RECURSIVE ChildrenWalkEnds(_, _)
ChildrenWalkEnds(parentId, above) ==
  \A i \in 1..Len(topicsDb) :
    topicsDb[i].parentTopicId = parentId
    => /\ topicsDb[i].id \notin above
       /\ ChildrenWalkEnds(topicsDb[i].id, above \cup {topicsDb[i].id})

\* TopicService.deleteTopic, for a walk of the children that ends
deleteTopic(id) ==
  IF ~Has(topicsDb, id) THEN Written(topicsDb, versionsDb, FALSE)
  ELSE IF \E i \in 1..Len(topicsDb) : topicsDb[i].parentTopicId = id
    THEN Thrown("Cannot delete topic with children")
  ELSE Written(DbDelete(topicsDb, id),
               SelectSeq(versionsDb, LAMBDA v : v.originalTopicId # id),
               TRUE)

\* Settle without the last statement of the writes, this.pathFinder = null
Settle_KeepsPathFinder(outcome) ==
  IF outcome.ok
    THEN /\ topicsDb' = outcome.topicsDb
         /\ versionsDb' = outcome.versionsDb
         /\ result' = [returned |-> TRUE, value |-> outcome.value]
         /\ UNCHANGED <<topics, adjacencyList, pathFinder>>
    ELSE /\ result' = [returned |-> TRUE, error |-> outcome.error]
         /\ UNCHANGED <<topics, adjacencyList, topicsDb, versionsDb, pathFinder>>

\* the end of a write: the tables are saved and the cache is invalidated
\* (the path-finder the service held is dropped, its maps with it), or the
\* error is thrown with nothing written
Settle(outcome) ==
  IF outcome.ok
    THEN /\ topicsDb' = outcome.topicsDb
         /\ versionsDb' = outcome.versionsDb
         /\ pathFinder' = Null
         /\ topics' = <<>>
         /\ adjacencyList' = <<>>
         /\ result' = [returned |-> TRUE, value |-> outcome.value]
    ELSE /\ result' = [returned |-> TRUE, error |-> outcome.error]
         /\ UNCHANGED <<topics, adjacencyList, topicsDb, versionsDb, pathFinder>>

CreateTopic(request) ==
  /\ call = NoCall
  /\ created < MaxServiceTopics
  /\ call' = [op |-> "createTopic", request |-> request]
  /\ Settle(createTopic(request))
  /\ created' = IF createTopic(request).ok THEN created + 1 ELSE created
  /\ UNCHANGED <<pendingWrite, usersDb>>

\* the writes the stored topics have had: each adds one to a version number
RECURSIVE Writes(_)
Writes(i) == IF i > Len(topicsDb) THEN 0 ELSE (topicsDb[i].version - 1) + Writes(i + 1)

\* a write is left out once the stored topics have had MaxWrites
BelowMaxWrites == Writes(1) < MaxWrites

UpdateTopic(id, request) ==
  /\ call = NoCall
  /\ BelowMaxWrites
  /\ call' = [op |-> "updateTopic", id |-> id, request |-> request]
  /\ Settle(updateTopic(id, request))
  /\ UNCHANGED <<created, pendingWrite, usersDb>>

MoveTopic(topicId, newParentId) ==
  /\ call = NoCall
  /\ BelowMaxWrites
  /\ call' = [op |-> "moveTopic", id |-> topicId,
              request |-> [name |-> <<>>, content |-> <<>>, parentTopicId |-> newParentId]]
  /\ Settle(moveTopic(topicId, newParentId))
  /\ UNCHANGED <<created, pendingWrite, usersDb>>

RevertToVersion(originalId, version) ==
  /\ call = NoCall
  /\ BelowMaxWrites
  /\ call' = [op |-> "revertToVersion", id |-> originalId, version |-> version]
  /\ Settle(revertToVersion(originalId, version))
  /\ UNCHANGED <<created, pendingWrite, usersDb>>

\* deleteTopic returns false for a topic that is not stored, before the
\* statement that invalidates the cache, and never returns when the walk of
\* the children never ends
DeleteTopic(id) ==
  /\ call = NoCall
  /\ call' = [op |-> "deleteTopic", id |-> id]
  /\ IF ~Has(topicsDb, id)
       THEN /\ result' = [returned |-> TRUE, value |-> FALSE]
            /\ UNCHANGED <<topics, adjacencyList, topicsDb, versionsDb, pathFinder>>
       ELSE IF ~ChildrenWalkEnds(id, {id})
       THEN /\ result' = NoResult
            /\ UNCHANGED <<topics, adjacencyList, topicsDb, versionsDb, pathFinder>>
       ELSE Settle(deleteTopic(id))
  /\ UNCHANGED <<created, pendingWrite, usersDb>>

\* TopicService.findShortestPath up to the end of its await of
\* ensurePathFinder: a path-finder is built from the topics table when the
\* service holds none
EnsurePathFinder(startId, endId) ==
  /\ call = NoCall
  /\ call' = [op |-> "TopicService.findShortestPath", startId |-> startId,
              endId |-> endId]
  /\ IF pathFinder = Null
       THEN /\ topics' = buildGraph(topicsDb).topics
            /\ adjacencyList' = buildGraph(topicsDb).adjacencyList
       ELSE UNCHANGED <<topics, adjacencyList>>
  /\ pathFinder' = "TopicPathFinder"
  /\ result' = NoResult
  /\ UNCHANGED <<topicsDb, versionsDb, created, pendingWrite, usersDb>>

\* TopicService.findShortestPath after the await: the query on the
\* path-finder the service holds
ServiceFindShortestPath ==
  /\ call.op = "TopicService.findShortestPath"
  /\ ~result.returned
  /\ result' = [returned |-> TRUE,
                value |-> findShortestPath(call.startId, call.endId)]
  /\ UNCHANGED <<topics, adjacencyList, call, service>>

\* the return or the throw reaches the caller
ServiceReturn ==
  /\ call # NoCall
  /\ result.returned
  /\ call' = NoCall
  /\ result' = NoResult
  /\ UNCHANGED <<topics, adjacencyList, service>>

(***************************************************************************)
(* The service specification: a TopicService on empty tables, and any      *)
(* sequence of its calls.                                                  *)
(***************************************************************************)
ServiceIds == Ids(MaxServiceTopics)

\* the text a topic is created with and the content an update gives it
FirstDoc == CHOOSE d \in Docs : Len(d.content) = 12
OtherContent == (CHOOSE d \in Docs : d # FirstDoc).content

\* what createTopic is asked: the first text under any parent, or a blank name
CreateRequests ==
  {[name |-> FirstDoc.name, content |-> FirstDoc.content, parentTopicId |-> p] :
     p \in {None} \cup ServiceIds}
  \cup {[name |-> <<" ">>, content |-> FirstDoc.content, parentTopicId |-> None]}

\* what updateTopic is asked: a new content, or a new parent or null
UpdateRequests ==
  {[name |-> <<>>, content |-> OtherContent, parentTopicId |-> None]}
  \cup {[name |-> <<>>, content |-> <<>>, parentTopicId |-> p] : p \in {Null} \cup ServiceIds}

InitService ==
  /\ topics = <<>>
  /\ adjacencyList = <<>>
  /\ call = NoCall
  /\ result = NoResult
  /\ topicsDb = <<>>
  /\ versionsDb = <<>>
  /\ pathFinder = Null
  /\ created = 0
  /\ pendingWrite = NoCall
  /\ usersDb = <<>>

NextService ==
  \/ \E request \in CreateRequests : CreateTopic(request)
  \/ \E id \in ServiceIds : \E request \in UpdateRequests : UpdateTopic(id, request)
  \/ \E id \in ServiceIds : \E p \in {Null} \cup ServiceIds : MoveTopic(id, p)
  \/ \E id \in ServiceIds : \E v \in 1..MaxWrites : RevertToVersion(id, v)
  \/ \E id \in ServiceIds : DeleteTopic(id)
  \/ \E a, b \in ServiceIds : EnsurePathFinder(a, b)
  \/ ServiceFindShortestPath
  \/ ServiceReturn

SpecService == InitService /\ [][NextService]_vars

(***************************************************************************)
(* C15: TopicService.findShortestPath returns what a path-finder freshly   *)
(* built from the topics now in the store returns: the path-finder that    *)
(* answers is the one buildGraph gives for the topics table.               *)
(***************************************************************************)
C15_ServicePathIsFresh ==
  (call.op = "TopicService.findShortestPath" /\ result.returned)
  => /\ topics = buildGraph(topicsDb).topics
     /\ adjacencyList = buildGraph(topicsDb).adjacencyList
     /\ result.value = findShortestPath(call.startId, call.endId)

\* a path of two nodes or more was returned from a store in which a topic
\* has been written after its creation and another has been deleted
C15_Witness ==
  /\ call.op = "TopicService.findShortestPath"
  /\ result.returned
  /\ Len(result.value) = 1
  /\ Len(result.value[1].path) >= 2
  /\ \E i \in 1..Len(topicsDb) : topicsDb[i].version >= 2
  /\ Len(topicsDb) < created

(***************************************************************************)
(* C20: updateTopic(t, {parentTopicId: p}) and moveTopic(t, p) on a stored *)
(* topic t throw 'Parent topic not found' when no topic p is stored and    *)
(* throw 'would create circular reference' when p is t or t is an ancestor *)
(* of p, and leave the topics and the version records as they were.        *)
(***************************************************************************)
\* the topic k parent links above id in the store, None when there is none
RECURSIVE UpDb(_, _)
UpDb(id, k) ==
  IF k = 0 THEN id
  ELSE IF Has(topicsDb, id) /\ Get(topicsDb, id).parentTopicId # None
    THEN UpDb(Get(topicsDb, id).parentTopicId, k - 1)
    ELSE None

IsAncestorInDb(t, p) == \E k \in 1..Len(topicsDb) : UpDb(p, k) = t

Rejected(messages) ==
  /\ "error" \in DOMAIN result'
  /\ result'.error \in messages
  /\ topicsDb' = topicsDb
  /\ versionsDb' = versionsDb

C20_BadParentIsRejected ==
  [][(/\ call = NoCall
      /\ call'.op \in {"updateTopic", "moveTopic"}
      /\ Has(topicsDb, call'.id)
      /\ call'.request.parentTopicId \in ServiceIds)
     => LET t == call'.id
            p == call'.request.parentTopicId
        IN  /\ ~Has(topicsDb, p) => Rejected({"Parent topic not found"})
            /\ (Has(topicsDb, p) /\ (p = t \/ IsAncestorInDb(t, p)))
               => Rejected({"Cannot set parent: would create circular reference",
                            "Cannot move topic: would create circular reference"})]_vars

(***************************************************************************)
(* The reads of TopicService the claims speak of, on given tables.         *)
(***************************************************************************)
\* Array.prototype.sort((a, b) => b.version - a.version): stable
RECURSIVE InsertByVersion(_, _)
InsertByVersion(sorted, x) ==
  IF Len(sorted) = 0 THEN <<x>>
  ELSE IF x.version > sorted[Len(sorted)].version
    THEN Append(InsertByVersion(SubSeq(sorted, 1, Len(sorted) - 1), x),
                sorted[Len(sorted)])
    ELSE Append(sorted, x)

RECURSIVE SortByVersion(_)
SortByVersion(s) ==
  IF Len(s) = 0 THEN <<>>
  ELSE InsertByVersion(SortByVersion(SubSeq(s, 1, Len(s) - 1)), s[Len(s)])

\* TopicService.getTopicVersions on the versions table vdb
getTopicVersions(vdb, originalId) ==
  SortByVersion(SelectSeq(vdb, LAMBDA v : v.originalTopicId = originalId))

\* TopicService.getRootTopics on the topics table tdb: the ids of the roots
getRootTopics(tdb) ==
  LET roots == SelectSeq(tdb, LAMBDA topic : topic.parentTopicId = None)
  IN  {roots[i].id : i \in 1..Len(roots)}

\* TopicService.getTopicChildren on the topics table tdb, for a walk of the
\* children that ends: the ids of the entries of the array it returns
getTopicChildren(tdb, parentId) ==
  LET children == SelectSeq(tdb, LAMBDA topic : topic.parentTopicId = parentId)
  IN  {children[i].id : i \in 1..Len(children)}

\* the step is a call of one of ops that returns a value
Succeeds(ops) ==
  /\ call = NoCall
  /\ call'.op \in ops
  /\ result'.returned
  /\ "value" \in DOMAIN result'

(***************************************************************************)
(* C21: a created topic has version 1 and one version record; every        *)
(* updateTopic, moveTopic or revertToVersion that succeeds on it keeps its *)
(* id, adds one to its version number and adds one version record; and     *)
(* getTopicVersions of a topic at version n gives n records numbered       *)
(* n, n - 1, ..., 1 in that order.                                         *)
(***************************************************************************)
VersionNumbers(vdb, id) ==
  [i \in 1..Len(getTopicVersions(vdb, id)) |-> getTopicVersions(vdb, id)[i].version]

C21_OneVersionPerWrite ==
  [][/\ \A i \in 1..Len(topicsDb') :
          VersionNumbers(versionsDb', topicsDb'[i].id)
            = [k \in 1..topicsDb'[i].version |-> topicsDb'[i].version + 1 - k]
     /\ Succeeds({"createTopic"})
        => /\ ~Has(topicsDb, result'.value.id)
           /\ Has(topicsDb', result'.value.id)
           /\ Get(topicsDb', result'.value.id).version = 1
     /\ Succeeds({"updateTopic", "moveTopic", "revertToVersion"})
        => /\ Has(topicsDb', call'.id)
           /\ Get(topicsDb', call'.id).version = Get(topicsDb, call'.id).version + 1
           /\ Len(getTopicVersions(versionsDb', call'.id))
                = Len(getTopicVersions(versionsDb, call'.id)) + 1]_vars

\* a topic written three times after its creation, last by a revert
C21_Witness ==
  /\ call.op = "revertToVersion"
  /\ result.returned
  /\ "value" \in DOMAIN result
  /\ result.value.version = 4
  /\ \E i \in 1..Len(versionsDb) :
       /\ versionsDb[i].originalTopicId = call.id
       /\ versionsDb[i].version = 2
       /\ versionsDb[i].content # result.value.content

(***************************************************************************)
(* C22: revertToVersion(id, v) of a stored topic at version n with a       *)
(* recorded version v gives the topic the name and content of that record  *)
(* and the version number n + 1, adds one version record and keeps the     *)
(* name, content and number of every earlier record; for a version never   *)
(* recorded it throws and changes nothing.                                 *)
(***************************************************************************)
Recorded(id, v) ==
  {i \in 1..Len(versionsDb) :
     versionsDb[i].originalTopicId = id /\ versionsDb[i].version = v}

C22_RevertRestoresRecordedVersion ==
  [][(call = NoCall /\ call'.op = "revertToVersion")
     => LET id == call'.id
            v == call'.version
        IN  /\ (Has(topicsDb, id) /\ Recorded(id, v) # {})
               => /\ "value" \in DOMAIN result'
                  /\ \A i \in Recorded(id, v) :
                       /\ Get(topicsDb', id).name = versionsDb[i].name
                       /\ Get(topicsDb', id).content = versionsDb[i].content
                  /\ Get(topicsDb', id).version = Get(topicsDb, id).version + 1
                  /\ Len(versionsDb') = Len(versionsDb) + 1
                  /\ versionsDb'[Len(versionsDb')].version = Get(topicsDb', id).version
                  /\ \A i \in 1..Len(versionsDb) :
                       /\ versionsDb'[i].id = versionsDb[i].id
                       /\ versionsDb'[i].name = versionsDb[i].name
                       /\ versionsDb'[i].content = versionsDb[i].content
                       /\ versionsDb'[i].version = versionsDb[i].version
            /\ Recorded(id, v) = {}
               => /\ "error" \in DOMAIN result'
                  /\ topicsDb' = topicsDb
                  /\ versionsDb' = versionsDb]_vars

\* a topic whose content was changed has been reverted to its first version
C22_Witness ==
  /\ call.op = "revertToVersion"
  /\ result.returned
  /\ "value" \in DOMAIN result
  /\ call.version = 1
  /\ result.value.version = 3
  /\ \E i \in 1..Len(versionsDb) :
       /\ versionsDb[i].originalTopicId = call.id
       /\ versionsDb[i].version = 2
       /\ versionsDb[i].content # result.value.content

(***************************************************************************)
(* C23: in every state the writes of TopicService reach from an empty      *)
(* store no stored topic is its own ancestor.                              *)
(***************************************************************************)
C23_StoredParentsAcyclic ==
  \A i \in 1..Len(topicsDb) : ~IsAncestorInDb(topicsDb[i].id, topicsDb[i].id)

(***************************************************************************)
(* C25: moveTopic(t, null) on a stored topic t that has a parent leaves t  *)
(* without parentTopicId, among the root topics and no longer among the    *)
(* children of its former parent.                                          *)
(***************************************************************************)
C25_MoveToNullMakesRoot ==
  [][(/\ call = NoCall
      /\ call'.op = "moveTopic"
      /\ call'.request.parentTopicId = Null
      /\ Has(topicsDb, call'.id)
      /\ Get(topicsDb, call'.id).parentTopicId # None)
     => /\ "value" \in DOMAIN result'
        /\ Get(topicsDb', call'.id).parentTopicId = None
        /\ call'.id \in getRootTopics(topicsDb')
        /\ call'.id \notin getTopicChildren(topicsDb', Get(topicsDb, call'.id).parentTopicId)]_vars

(***************************************************************************)
(* C29: every stored topic has exactly one version record flagged          *)
(* isCurrentVersion, with the version number, name and content of the      *)
(* topic, and every version record belongs to a stored topic.              *)
(***************************************************************************)
C29_OneCurrentVersionRecord ==
  /\ \A i \in 1..Len(topicsDb) :
       LET current == {j \in 1..Len(versionsDb) :
                         /\ versionsDb[j].originalTopicId = topicsDb[i].id
                         /\ versionsDb[j].isCurrentVersion}
       IN  /\ Cardinality(current) = 1
           /\ \A j \in current :
                /\ versionsDb[j].version = topicsDb[i].version
                /\ versionsDb[j].name = topicsDb[i].name
                /\ versionsDb[j].content = topicsDb[i].content
  /\ \A j \in 1..Len(versionsDb) : Has(topicsDb, versionsDb[j].originalTopicId)

\* a topic with three version records is stored after another was deleted
C29_Witness ==
  /\ Len(topicsDb) < created
  /\ \E i \in 1..Len(topicsDb) :
       /\ topicsDb[i].version = 3
       /\ Len(getTopicVersions(versionsDb, topicsDb[i].id)) = 3

(***************************************************************************)
(* C26: every entry of findTopicsWithinDistance(s, maxDistance) for a      *)
(* known s carries the distance findShortestPath reports from s to the     *)
(* entry's topic.                                                          *)
(***************************************************************************)
C26_WithinDistanceAgreesWithShortestPath ==
  (IsQuery("findTopicsWithinDistance") /\ Has(topics, call.topicId))
  => \A i \in 1..Len(result.value) :
       LET found == findShortestPath(call.topicId, result.value[i].topicId)
       IN  /\ Len(found) = 1
           /\ found[1].distance = result.value[i].distance

(***************************************************************************)
(* C27: for known ids a # b and maxDepth at least the number of nodes      *)
(* minus one, findAllPaths(a, b, maxDepth) is non-empty exactly when       *)
(* findShortestPath(a, b) is non-null, and its first element then has the  *)
(* distance findShortestPath reports.                                      *)
(***************************************************************************)
C27_Case ==
  /\ IsQuery("findAllPaths")
  /\ Has(topics, call.startId)
  /\ Has(topics, call.endId)
  /\ call.startId # call.endId
  /\ call.maxDepth >= Cardinality(NodeIds) - 1

C27_FirstPathIsShortest ==
  C27_Case
  => LET found == findShortestPath(call.startId, call.endId)
     IN  /\ (Len(result.value) > 0) <=> (Len(found) = 1)
         /\ Len(found) = 1 => result.value[1].distance = found[1].distance

\* two paths were found and the one the search met first is the longer one
C27_Witness ==
  /\ C27_Case
  /\ Len(result.value) = 2
  /\ LET allPaths == dfsAllPaths(call.startId, call.endId, <<>>, call.maxDepth)
     IN  allPaths[1] = result.value[2].path

(***************************************************************************)
(* updateGraph: the graph of an existing path-finder is replaced.          *)
(***************************************************************************)
MaxUpdateTopics == 2

\* TopicPathFinder.buildGraph on the maps m0 and adj0: Map.set keeps the
\* place of a key the map already has, and every topic of the list gets a
\* new empty neighbour set
buildGraphOnto(list, m0, adj0) ==
  LET m == InitMaps(list, 1, m0)
      listed == {list[i].id : i \in 1..Len(list)}
  IN  [topics |-> m,
       adjacencyList |->
         AddEdges(list, 1, m,
                  [id \in Range(Keys(m)) |-> IF id \in listed THEN <<>> ELSE adj0[id]])]

\* updateGraph without the two clear() calls
updateGraph_NoClear(list) == buildGraphOnto(list, topics, adjacencyList)

\* TopicPathFinder.updateGraph: the two maps it leaves
updateGraph(list) == buildGraphOnto(list, <<>>, <<>>)

UpdateGraph(list) ==
  /\ call = NoCall
  /\ call' = [op |-> "updateGraph", topics |-> list]
  /\ topics' = updateGraph(list).topics
  /\ adjacencyList' = updateGraph(list).adjacencyList
  /\ result' = [returned |-> TRUE]
  /\ UNCHANGED service

\* the lists a path-finder is built from and updated with: a topic may name
\* as its parent a topic that only a longer list has
UpdateLists ==
  UNION {{[i \in 1..n |-> Topic(IdNames[i], d[i], p[i])] :
            d \in [1..n -> Docs],
            p \in [1..n -> {None} \cup Ids(MaxUpdateTopics)]} :
         n \in 0..MaxUpdateTopics}

InitUpdate == \E list \in UpdateLists : Construct(list)

NextUpdate ==
  \/ \E list \in UpdateLists : UpdateGraph(list)
  \/ \E a, b \in Args : FindShortestPath(a, b)
  \/ Return

SpecUpdate == InitUpdate /\ [][NextUpdate]_vars

(***************************************************************************)
(* C28: after updateGraph(T) the two maps of the path-finder are those of  *)
(* new TopicPathFinder(T), whatever list it held before; the queries read  *)
(* nothing else, so they answer alike on both.                             *)
(***************************************************************************)
C28_UpdateGraphIsRebuild ==
  [][(call = NoCall /\ call'.op = "updateGraph")
     => /\ topics' = buildGraph(call'.topics).topics
        /\ adjacencyList' = buildGraph(call'.topics).adjacencyList]_vars

\* updateGraph has returned with a single topic whose parent is not in the
\* list it was given
C28_Witness ==
  /\ call.op = "updateGraph"
  /\ result.returned
  /\ Len(call.topics) = 1
  /\ call.topics[1].parentTopicId \in Ids(MaxUpdateTopics) \ {call.topics[1].id}
  /\ Len(topics) = 1
  /\ adjacencyList[call.topics[1].id] = <<>>

(***************************************************************************)
(* Overlapping calls.  An async method runs to its next await and resumes  *)
(* later, so a findShortestPath and a write on the same service interleave *)
(* at these points.  The find reads the cache field when it is called,     *)
(* takes the array of topicsDb.find(), assigns the new path-finder and     *)
(* comes back from its await of ensurePathFinder before it reads the field *)
(* again; the write saves its tables and resumes from its last await       *)
(* before it sets the field to null.                                       *)
(***************************************************************************)
MaxOverlapTopics == 2
MaxOverlapWrites == 1

OverlapIds == Ids(MaxOverlapTopics)

\* the writes that overlap a find
WriteCalls ==
  {[op |-> "createTopic", request |-> request] :
     request \in {r \in CreateRequests : r.parentTopicId \in {None} \cup OverlapIds}}
  \cup {[op |-> "updateTopic", id |-> id, request |-> request] :
          id \in OverlapIds,
          request \in {r \in UpdateRequests : r.parentTopicId \in {None} \cup OverlapIds}}
  \cup {[op |-> "revertToVersion", id |-> id, version |-> v] :
          id \in OverlapIds, v \in 1..MaxOverlapWrites}
  \cup {[op |-> "deleteTopic", id |-> id] : id \in OverlapIds}

OutcomeOf(w) ==
  CASE w.op = "createTopic" -> createTopic(w.request)
    [] w.op = "updateTopic" -> updateTopic(w.id, w.request)
    [] w.op = "revertToVersion" -> revertToVersion(w.id, w.version)
    [] w.op = "deleteTopic" -> deleteTopic(w.id)

\* a write up to its last await: the tables are saved
WriteTables(w) ==
  /\ pendingWrite = NoCall
  /\ IF w.op = "createTopic" THEN created < MaxOverlapTopics
     ELSE IF w.op = "deleteTopic" THEN Has(topicsDb, w.id) /\ ChildrenWalkEnds(w.id, {w.id})
     ELSE Writes(1) < MaxOverlapWrites
  /\ OutcomeOf(w).ok
  /\ topicsDb' = OutcomeOf(w).topicsDb
  /\ versionsDb' = OutcomeOf(w).versionsDb
  /\ created' = IF w.op = "createTopic" THEN created + 1 ELSE created
  /\ pendingWrite' = w
  /\ UNCHANGED <<topics, adjacencyList, call, result, pathFinder, usersDb>>

\* the write after its last await: this.pathFinder = null, and the return
WriteResets ==
  /\ pendingWrite # NoCall
  /\ pathFinder' = Null
  /\ topics' = <<>>
  /\ adjacencyList' = <<>>
  /\ pendingWrite' = NoCall
  /\ UNCHANGED <<call, result, topicsDb, versionsDb, created, usersDb>>

\* findShortestPath is called: ensurePathFinder tests the cache field and
\* awaits getAllTopics when it is null
FindCalled(startId, endId) ==
  /\ call = NoCall
  /\ call' = [op |-> "TopicService.findShortestPath", startId |-> startId,
              endId |-> endId,
              at |-> IF pathFinder = Null THEN "getAllTopics" ELSE "findShortestPath",
              allTopics |-> <<>>]
  /\ result' = NoResult
  /\ UNCHANGED <<topics, adjacencyList, service>>

\* topicsDb.find() returns the array of the records the table holds now
FindReadsTopics ==
  /\ call.op = "TopicService.findShortestPath"
  /\ call.at = "getAllTopics"
  /\ call' = [call EXCEPT !.at = "ensurePathFinder", !.allTopics = topicsDb]
  /\ UNCHANGED <<topics, adjacencyList, result, service>>

\* ensurePathFinder resumes: this.pathFinder = new TopicPathFinder(allTopics)
FindBuilds ==
  /\ call.op = "TopicService.findShortestPath"
  /\ call.at = "ensurePathFinder"
  /\ topics' = buildGraph(call.allTopics).topics
  /\ adjacencyList' = buildGraph(call.allTopics).adjacencyList
  /\ pathFinder' = "TopicPathFinder"
  /\ call' = [call EXCEPT !.at = "findShortestPath", !.allTopics = <<>>]
  /\ UNCHANGED <<result, topicsDb, versionsDb, created, pendingWrite, usersDb>>

\* findShortestPath resumes: this.pathFinder!.findShortestPath(startId, endId),
\* a TypeError when the field is null
FindQueries ==
  /\ call.op = "TopicService.findShortestPath"
  /\ call.at = "findShortestPath"
  /\ ~result.returned
  /\ result' = IF pathFinder = Null
                 THEN [returned |-> TRUE, error |-> "TypeError"]
                 ELSE [returned |-> TRUE,
                       value |-> findShortestPath(call.startId, call.endId)]
  /\ UNCHANGED <<topics, adjacencyList, call, service>>

NextOverlap ==
  \/ \E w \in WriteCalls : WriteTables(w)
  \/ WriteResets
  \/ \E a, b \in OverlapIds : FindCalled(a, b)
  \/ FindReadsTopics
  \/ FindBuilds
  \/ FindQueries
  \/ ServiceReturn

SpecOverlap == InitService /\ [][NextOverlap]_vars

(***************************************************************************)
(* C24: when a findShortestPath and a write that overlapped have both      *)
(* finished, the service holds no path-finder or one built from the topics *)
(* the table holds after the write; and findShortestPath never reads a     *)
(* cache field that a write has just set to null.                          *)
(***************************************************************************)
C24_OverlapLeavesFreshCache ==
  /\ (pendingWrite = NoCall /\ (call = NoCall \/ result.returned) /\ pathFinder # Null)
     => /\ topics = buildGraph(topicsDb).topics
        /\ adjacencyList = buildGraph(topicsDb).adjacencyList
  /\ (result.returned /\ "error" \in DOMAIN result) => result.error # "TypeError"

(***************************************************************************)
(* UserService: the users table and the calls that write it.  A user       *)
(* record is held by its id, name, email and role; the password hash and   *)
(* the dates take no part in any test of the calls.                        *)
(***************************************************************************)
MaxUsers == 2

\* enum UserRole
ADMIN == "Admin"
EDITOR == "Editor"
VIEWER == "Viewer"
UserRole == {ADMIN, EDITOR, VIEWER}

UserIdNames == <<"u1", "u2", "u3", "u4">>
DefaultAdminId == "admin-default"
UserIds == {UserIdNames[i] : i \in 1..MaxUsers} \cup {DefaultAdminId}

DefaultAdminName == <<"D", "e", "f", "a", "u", "l", "t", " ", "A", "d", "m", "i", "n">>
DefaultAdminEmail ==
  <<"a", "d", "m", "i", "n", "@", "s", "y", "s", "t", "e", "m", ".", "c", "o", "m">>
Emails ==
  {<<"a", "@", "b", ".", "c">>, <<"d", "@", "b", ".", "c">>, <<"a", "@", "b">>}

\* User.isValidEmail: /^[^\s@]+@[^\s@]+\.[^\s@]+$/
isValidEmail(email) ==
  \E i \in 2..Len(email) :
    /\ email[i] = "@"
    /\ \A j \in (1..Len(email)) \ {i} : email[j] \notin Whitespace \cup {"@"}
    /\ \E k \in (i + 2)..(Len(email) - 1) : email[k] = "."

\* User.validate
validateUser(user) ==
  /\ \E i \in 1..Len(user.name) : user.name[i] \notin Whitespace
  /\ isValidEmail(user.email)
  /\ user.role \in UserRole

\* User.isAdmin, for the id of a user that may not be stored
isAdmin(id) == Has(usersDb, id) /\ Get(usersDb, id).role = ADMIN

\* usersDb.findByField('email', email)
findByEmail(email) == SelectSeq(usersDb, LAMBDA u : u.email = email)

\* allUsers.filter(u => u.role === UserRole.ADMIN).length
adminCount(db) == Len(SelectSeq(db, LAMBDA u : u.role = ADMIN))

Saved(db, value) == [ok |-> TRUE, usersDb |-> db, value |-> value]

\* the id the constructor of BaseEntity gives a new user
NewUserId == UserIdNames[created + 1]

\* UserService.registerUser
registerUser(name, email, role) ==
  IF Len(findByEmail(email)) > 0 THEN Thrown("User with this email already exists")
  ELSE LET user == [id |-> NewUserId, name |-> name, email |-> email, role |-> role]
       IN  IF ~validateUser(user) THEN Thrown("Invalid user data")
           ELSE Saved(Append(usersDb, user), user)

\* UserService.createUser
createUser(request, creatorId) ==
  IF ~isAdmin(creatorId) THEN Thrown("Only administrators can create users")
  ELSE IF Len(findByEmail(request.email)) > 0
    THEN Thrown("User with this email already exists")
  ELSE LET user == [id |-> NewUserId, name |-> request.name,
                    email |-> request.email, role |-> request.role]
       IN  IF ~validateUser(user) THEN Thrown("Invalid user data")
           ELSE Saved(Append(usersDb, user), user)

\* UserService.updateUser; a field the caller leaves out is <<>> (name,
\* email) or None (role)
updateUser(id, updates, updaterId) ==
  IF ~Has(usersDb, id) THEN Thrown("User not found")
  ELSE IF ~Has(usersDb, updaterId) THEN Thrown("Updater not found")
  ELSE IF id # updaterId /\ ~isAdmin(updaterId)
    THEN Thrown("Only administrators can update other users")
  ELSE IF updates.role # None /\ ~isAdmin(updaterId)
    THEN Thrown("Only administrators can change user roles")
  ELSE LET existingUser == Get(usersDb, id)
       IN  IF /\ updates.email # <<>>
              /\ updates.email # existingUser.email
              /\ Len(findByEmail(updates.email)) > 0
              /\ findByEmail(updates.email)[1].id # id
             THEN Thrown("User with this email already exists")
           ELSE LET updated ==
                      [id |-> id,
                       name |-> IF updates.name # <<>> THEN updates.name
                                ELSE existingUser.name,
                       email |-> IF updates.email # <<>> THEN updates.email
                                 ELSE existingUser.email,
                       role |-> IF updates.role # None THEN updates.role
                                ELSE existingUser.role]
                IN  IF ~validateUser(updated) THEN Thrown("Invalid user data")
                    ELSE Saved([i \in 1..Len(usersDb) |->
                                  IF usersDb[i].id = id THEN updated ELSE usersDb[i]],
                               updated)

\* UserService.changeUserRole
changeUserRole(userId, newRole, changerId) ==
  IF ~isAdmin(changerId) THEN Thrown("Only administrators can change user roles")
  ELSE updateUser(userId, [name |-> <<>>, email |-> <<>>, role |-> newRole], changerId)

\* UserService.deleteUser
deleteUser(id, deleterId) ==
  IF ~Has(usersDb, id) THEN Saved(usersDb, FALSE)
  ELSE IF ~isAdmin(deleterId) THEN Thrown("Only administrators can delete users")
  ELSE IF isAdmin(id) /\ adminCount(usersDb) <= 1
    THEN Thrown("Cannot delete the last administrator")
  ELSE Saved(DbDelete(usersDb, id), TRUE)

\* UserService.ensureAdminExists; usersDb.create throws for an id the table has
ensureAdminExists ==
  IF adminCount(usersDb) # 0 THEN Saved(usersDb, TRUE)
  ELSE IF Has(usersDb, DefaultAdminId) THEN Thrown("Record already exists")
  ELSE Saved(Append(usersDb, [id |-> DefaultAdminId, name |-> DefaultAdminName,
                              email |-> DefaultAdminEmail, role |-> ADMIN]),
             TRUE)

\* the end of a call of UserService: the table is saved and the value
\* returned, or the error is thrown with nothing written
SettleUser(outcome) ==
  /\ usersDb' = IF outcome.ok THEN outcome.usersDb ELSE usersDb
  /\ result' = IF outcome.ok THEN [returned |-> TRUE, value |-> outcome.value]
               ELSE [returned |-> TRUE, error |-> outcome.error]
  /\ created' = IF outcome.ok /\ Has(outcome.usersDb, NewUserId) THEN created + 1
                ELSE created
  /\ UNCHANGED <<topics, adjacencyList, topicsDb, versionsDb, pathFinder, pendingWrite>>

RegisterUser(name, email, role) ==
  /\ call = NoCall
  /\ created < MaxUsers
  /\ call' = [op |-> "registerUser", name |-> name, email |-> email, role |-> role]
  /\ SettleUser(registerUser(name, email, role))

CreateUser(request, creatorId) ==
  /\ call = NoCall
  /\ created < MaxUsers
  /\ call' = [op |-> "createUser", request |-> request, creatorId |-> creatorId]
  /\ SettleUser(createUser(request, creatorId))

UpdateUser(id, updates, updaterId) ==
  /\ call = NoCall
  /\ call' = [op |-> "updateUser", id |-> id, updates |-> updates,
              updaterId |-> updaterId]
  /\ SettleUser(updateUser(id, updates, updaterId))

ChangeUserRole(userId, newRole, changerId) ==
  /\ call = NoCall
  /\ call' = [op |-> "changeUserRole", id |-> userId, role |-> newRole,
              changerId |-> changerId]
  /\ SettleUser(changeUserRole(userId, newRole, changerId))

DeleteUser(id, deleterId) ==
  /\ call = NoCall
  /\ call' = [op |-> "deleteUser", id |-> id, deleterId |-> deleterId]
  /\ SettleUser(deleteUser(id, deleterId))

EnsureAdminExists ==
  /\ call = NoCall
  /\ call' = [op |-> "ensureAdminExists"]
  /\ SettleUser(ensureAdminExists)

\* what registerUser and createUser are asked
UserRequests ==
  {[name |-> <<"A", "n", "n">>, email |-> e, role |-> r] : e \in Emails, r \in UserRole}
  \cup {[name |-> <<" ">>, email |-> <<"a", "@", "b", ".", "c">>, role |-> VIEWER]}

\* what updateUser is asked
UserUpdates ==
  {[name |-> <<>>, email |-> e, role |-> r] :
     e \in {<<>>} \cup Emails, r \in {None} \cup UserRole}
  \cup {[name |-> <<" ">>, email |-> <<>>, role |-> None]}

\* the ids a caller passes: those of the users and one that is not
UserArgs == UserIds \cup {Unknown}

NextUsers ==
  \/ EnsureAdminExists
  \/ \E r \in UserRequests : RegisterUser(r.name, r.email, r.role)
  \/ \E r \in UserRequests : \E creatorId \in UserArgs : CreateUser(r, creatorId)
  \/ \E id, updaterId \in UserArgs : \E u \in UserUpdates : UpdateUser(id, u, updaterId)
  \/ \E id, changerId \in UserArgs : \E r \in UserRole : ChangeUserRole(id, r, changerId)
  \/ \E id, deleterId \in UserArgs : DeleteUser(id, deleterId)
  \/ ServiceReturn

SpecUsers == InitService /\ [][NextUsers]_vars

(***************************************************************************)
(* C30: once the users table holds a user with role Admin, no call of      *)
(* UserService leaves it without one.                                      *)
(***************************************************************************)
C30_AnAdminRemains ==
  [][adminCount(usersDb) > 0 => adminCount(usersDb') > 0]_vars
====
